---- MODULE Spec2Model ----
(***************************************************************************)
(* OntsugiCRM: a model of the document services (QuoteService,             *)
(* InvoiceService), of the line-item grouping engine (ProjectItemService,  *)
(* LarkBaseInvoiceService) and of the remote record store they talk to.    *)
(*                                                                         *)
(* Conventions.  Texts the source writes in Japanese are written in ASCII: *)
(* statuses 下書き/発行済み/送付済み/一部入金/入金済み/過払い/未回収/        *)
(* キャンセル are "Draft"/"Issued"/"Sent"/"PartiallyPaid"/"Paid"/           *)
(* "Overpaid"/"Uncollected"/"Cancelled"; the delivery status 納品 is        *)
(* "delivered"; the month label `${year}年${MM}月` is year "y" MM "m".      *)
(* A tax rate is held as an integer percentage, so Math.floor(x * rate) is *)
(* (x * pct) \div 100.  An absent (undefined) value is NoValue.            *)
(***************************************************************************)
EXTENDS Integers, Sequences, FiniteSets, TLC

VARIABLES
    invoices,   \* InvoiceService: the module-level Map id -> Invoice
    quotes,     \* QuoteService: the module-level Map id -> Quote
    lastOp,     \* the operation that ran last, its arguments and its result
    table,      \* the remote record store: the rows of the line-item table
    now,        \* the current date (year and month), as new Date() reads it
    call,       \* the last call of the grouping engine and what it returned
    pc,         \* issueInvoice: where each caller's call stands
    job,        \* issueInvoice: the locals of each caller's call
    issued,     \* history: the (client, month) pairs issued in full
    drifted,    \* history: the issued pairs a change of month moved a row into
    exportIn,   \* FreeeExportService: the invoice list a caller holds
    exportOut,  \* FreeeExportService: what the last export returned
    completion, \* how the last operation on the record store completed
    users,      \* AuthService: the Map id -> User
    emailIndex, \* AuthService: the Map e-mail -> id
    refreshTokens, \* AuthService: the Set of stored refresh tokens
    authCalls,  \* AuthService: the register and login calls in their await
    clock,      \* the second Date.now() falls in
    authHist,   \* history: ids created and deleted, tokens spent, pairs signed
    authOut,    \* AuthService: what the last operation returned
    summaryOut, \* InvoiceService: what the last getMonthlySummary returned
    accessToken,\* LarkBaseClient: the cached access token, NoToken when null
    tokenExpiry,\* LarkBaseClient: the recorded expiry of the cached token
    tokenCalls, \* LarkBaseClient: where each caller's request stands
    tokenTime,  \* the time Date.now() reads, in units of 30 s
    tokenHist   \* history: the token responses completed so far

docVars == <<invoices, quotes, lastOp>>
groupVars == <<table, now, call>>
issueVars == <<pc, job, issued, drifted>>
exportVars == <<exportIn, exportOut>>
authVars ==
    <<users, emailIndex, refreshTokens, authCalls, clock, authHist, authOut>>
summaryVars == <<summaryOut>>
cacheVars == <<accessToken, tokenExpiry, tokenCalls, tokenTime, tokenHist>>
allVars ==
    <<invoices, quotes, lastOp, table, now, call, pc, job, issued, drifted,
      exportIn, exportOut, completion, users, emailIndex, refreshTokens,
      authCalls, clock, authHist, authOut,
      summaryOut,
      accessToken, tokenExpiry, tokenCalls, tokenTime, tokenHist>>

NoValue == "undefined"

-----------------------------------------------------------------------------
(* Helpers *)

\* reduce((sum, x) => sum + x, 0), added up by halves so that a sequence of
\* hundreds of numbers is evaluated at a depth of its logarithm
RECURSIVE SumSeq(_)
SumSeq(s) ==
    IF s = <<>> THEN 0
    ELSE IF Len(s) = 1 THEN s[1]
    ELSE SumSeq(SubSeq(s, 1, Len(s) \div 2))
           + SumSeq(SubSeq(s, (Len(s) \div 2) + 1, Len(s)))

\* object spread `...data` restricted to one field: data.f when present
Has(data, f) == f \in DOMAIN data
Field(data, f, old) == IF Has(data, f) THEN data[f] ELSE old

-----------------------------------------------------------------------------
(* Pricing, as InvoiceService.create/update and QuoteService.create/update *)
(* compute it.                                                             *)

\* items.map(item => ({...item, amount: item.quantity * item.unitPrice}))
RecomputeAmounts(items) ==
    [i \in 1..Len(items) |->
        [quantity  |-> items[i].quantity,
         unitPrice |-> items[i].unitPrice,
         taxable   |-> items[i].taxable,
         amount    |-> items[i].quantity * items[i].unitPrice]]

AmountsOf(items) == [i \in 1..Len(items) |-> items[i].amount]
IsTaxable(item) == item.taxable
IsNonTaxable(item) == ~item.taxable

\* items.filter(item => item.taxable).reduce((sum, item) => sum + item.amount, 0)
TaxableAmount(items) == SumSeq(AmountsOf(SelectSeq(items, IsTaxable)))
NonTaxableAmount(items) == SumSeq(AmountsOf(SelectSeq(items, IsNonTaxable)))

\* Math.floor(taxableAmount * taxRate), the rate held as a percentage
TaxOf(taxable, ratePct) == (taxable * ratePct) \div 100

\* a pricing that taxes every item, taxable or not
Totals_taxesAll(items, ratePct) ==
    [subtotal    |-> TaxableAmount(items) + NonTaxableAmount(items),
     taxAmount   |-> TaxOf(TaxableAmount(items) + NonTaxableAmount(items), ratePct),
     totalAmount |-> TaxableAmount(items) + NonTaxableAmount(items)
                     + TaxOf(TaxableAmount(items) + NonTaxableAmount(items), ratePct)]

\* the four derived fields both services store
Totals(items, ratePct) ==
    [subtotal    |-> TaxableAmount(items) + NonTaxableAmount(items),
     taxAmount   |-> TaxOf(TaxableAmount(items), ratePct),
     totalAmount |-> TaxableAmount(items) + TaxOf(TaxableAmount(items), ratePct)
                     + NonTaxableAmount(items)]

DEFAULT_TAX_RATE == 10


-----------------------------------------------------------------------------
(* InvoiceService: an in-memory Map of invoices.                           *)

InvoiceStatuses ==
    {"Draft", "Issued", "Sent", "PartiallyPaid", "Paid", "Overpaid",
     "Uncollected", "Cancelled"}

EmptyStore == [k \in {} |-> k]
Put(store, id, doc) == [k \in DOMAIN store \cup {id} |->
                            IF k = id THEN doc ELSE store[k]]
Remove(store, id) == [k \in DOMAIN store \ {id} |-> store[k]]

\* ApiResponse: success flag and error code
Ok == [ok |-> TRUE, code |-> "OK"]
Err(code) == [ok |-> FALSE, code |-> code]
\* arg is the status or id the caller passed, amount the payment
Op(name, id, arg, amount, res) ==
    [op |-> name, id |-> id, arg |-> arg, amount |-> amount,
     ok |-> res.ok, code |-> res.code]

\* InvoiceService.create: the invoice stored for data = {items, taxRate?}
NewInvoice(data) ==
    LET taxRate == Field(data, "taxRate", DEFAULT_TAX_RATE)
        items   == RecomputeAmounts(data.items)
        t       == Totals(items, taxRate)
    IN  [status      |-> "Draft",
         items       |-> items,
         subtotal    |-> t.subtotal,
         taxRate     |-> taxRate,
         taxAmount   |-> t.taxAmount,
         totalAmount |-> t.totalAmount,
         paidAmount  |-> 0]

\* an update that drops the status the caller passed
UpdatedInvoice_keepsStatus(invoice, data) ==
    LET items   == IF Has(data, "items") THEN RecomputeAmounts(data.items)
                   ELSE invoice.items
        taxRate == Field(data, "taxRate", invoice.taxRate)
        t       == Totals(items, taxRate)
    IN  [status      |-> invoice.status,
         items       |-> items,
         subtotal    |-> t.subtotal,
         taxRate     |-> taxRate,
         taxAmount   |-> t.taxAmount,
         totalAmount |-> t.totalAmount,
         paidAmount  |-> Field(data, "paidAmount", invoice.paidAmount)]

\* InvoiceService.update: {...invoice, ...data, items, subtotal, taxRate,
\* taxAmount, totalAmount}; the totals are recomputed on every update
UpdatedInvoice(invoice, data) ==
    LET items   == IF Has(data, "items") THEN RecomputeAmounts(data.items)
                   ELSE invoice.items
        taxRate == Field(data, "taxRate", invoice.taxRate)
        t       == Totals(items, taxRate)
    IN  [status      |-> Field(data, "status", invoice.status),
         items       |-> items,
         subtotal    |-> t.subtotal,
         taxRate     |-> taxRate,
         taxAmount   |-> t.taxAmount,
         totalAmount |-> t.totalAmount,
         paidAmount  |-> Field(data, "paidAmount", invoice.paidAmount)]

\* a threshold test that misses the boundary paidAmount = totalAmount
PaymentStatus_offByOne(invoice, paidAmount) ==
    IF paidAmount > invoice.totalAmount THEN "Overpaid"
    ELSE IF paidAmount > 0 THEN "PartiallyPaid"
    ELSE invoice.status

\* InvoiceService.recordPayment: the status chosen from the new paid amount
PaymentStatus(invoice, paidAmount) ==
    IF paidAmount >= invoice.totalAmount
    THEN (IF paidAmount > invoice.totalAmount THEN "Overpaid" ELSE "Paid")
    ELSE IF paidAmount > 0 THEN "PartiallyPaid"
    ELSE invoice.status

Invoice_create(id, data) ==
    /\ id \notin DOMAIN invoices
    /\ invoices' = Put(invoices, id, NewInvoice(data))
    /\ lastOp' = Op("Invoice.create", id, NoValue, 0, Ok)
    /\ UNCHANGED quotes

Invoice_update(id, data) ==
    /\ IF id \in DOMAIN invoices
       THEN /\ invoices' = Put(invoices, id, UpdatedInvoice(invoices[id], data))
            /\ lastOp' = Op("Invoice.update", id, NoValue, 0, Ok)
       ELSE /\ invoices' = invoices
            /\ lastOp' = Op("Invoice.update", id, NoValue, 0, Err("NOT_FOUND"))
    /\ UNCHANGED quotes

Invoice_updateStatus(id, status) ==
    /\ IF id \in DOMAIN invoices
       THEN /\ invoices' = Put(invoices, id,
                   UpdatedInvoice(invoices[id], [status |-> status]))
            /\ lastOp' = Op("Invoice.updateStatus", id, status, 0, Ok)
       ELSE /\ invoices' = invoices
            /\ lastOp' = Op("Invoice.updateStatus", id, status, 0, Err("NOT_FOUND"))
    /\ UNCHANGED quotes

Invoice_recordPayment(id, amount) ==
    /\ IF id \in DOMAIN invoices
       THEN LET paidAmount == invoices[id].paidAmount + amount
                status     == PaymentStatus(invoices[id], paidAmount)
            IN  /\ invoices' = Put(invoices, id,
                       UpdatedInvoice(invoices[id],
                           [paidAmount |-> paidAmount, status |-> status]))
                /\ lastOp' = Op("Invoice.recordPayment", id, NoValue, amount, Ok)
       ELSE /\ invoices' = invoices
            /\ lastOp' = Op("Invoice.recordPayment", id, NoValue, amount, Err("NOT_FOUND"))
    /\ UNCHANGED quotes

Invoice_delete(id) ==
    /\ IF id \in DOMAIN invoices
       THEN /\ invoices' = Remove(invoices, id)
            /\ lastOp' = Op("Invoice.delete", id, NoValue, 0, Ok)
       ELSE /\ invoices' = invoices
            /\ lastOp' = Op("Invoice.delete", id, NoValue, 0, Err("NOT_FOUND"))
    /\ UNCHANGED quotes

-----------------------------------------------------------------------------
(* QuoteService: an in-memory Map of quotes.                               *)

QuoteStatuses ==
    {"Draft", "Sent", "AwaitingApproval", "Approved", "Expired", "Cancelled"}

\* QuoteService.generateQuoteNumber: the sequence part, quotes.size + 1
generateQuoteNumber(store) == Cardinality(DOMAIN store) + 1

\* QuoteService.create
NewQuote(data, quoteNumber) ==
    LET taxRate == Field(data, "taxRate", DEFAULT_TAX_RATE)
        items   == RecomputeAmounts(data.items)
        t       == Totals(items, taxRate)
    IN  [quoteNumber |-> quoteNumber,
         status      |-> "Draft",
         items       |-> items,
         subtotal    |-> t.subtotal,
         taxRate     |-> taxRate,
         taxAmount   |-> t.taxAmount,
         totalAmount |-> t.totalAmount,
         notes       |-> Field(data, "notes", NoValue)]

\* QuoteService.update
UpdatedQuote(quote, data) ==
    LET items   == IF Has(data, "items") THEN RecomputeAmounts(data.items)
                   ELSE quote.items
        taxRate == Field(data, "taxRate", quote.taxRate)
        t       == Totals(items, taxRate)
    IN  [quoteNumber |-> Field(data, "quoteNumber", quote.quoteNumber),
         status      |-> Field(data, "status", quote.status),
         items       |-> items,
         subtotal    |-> t.subtotal,
         taxRate     |-> taxRate,
         taxAmount   |-> t.taxAmount,
         totalAmount |-> t.totalAmount,
         notes       |-> Field(data, "notes", quote.notes)]

\* QuoteService.duplicate: {...original, id, quoteNumber, status: Draft, ...}
DuplicatedQuote(original, quoteNumber) ==
    [original EXCEPT !.quoteNumber = quoteNumber, !.status = "Draft"]

Quote_create(id, data) ==
    /\ id \notin DOMAIN quotes
    /\ quotes' = Put(quotes, id, NewQuote(data, generateQuoteNumber(quotes)))
    /\ lastOp' = Op("Quote.create", id, NoValue, 0, Ok)
    /\ UNCHANGED invoices

Quote_update(id, data) ==
    /\ IF id \in DOMAIN quotes
       THEN /\ quotes' = Put(quotes, id, UpdatedQuote(quotes[id], data))
            /\ lastOp' = Op("Quote.update", id, NoValue, 0, Ok)
       ELSE /\ quotes' = quotes
            /\ lastOp' = Op("Quote.update", id, NoValue, 0, Err("NOT_FOUND"))
    /\ UNCHANGED invoices

Quote_updateStatus(id, status) ==
    /\ IF id \in DOMAIN quotes
       THEN /\ quotes' = Put(quotes, id,
                   UpdatedQuote(quotes[id], [status |-> status]))
            /\ lastOp' = Op("Quote.updateStatus", id, status, 0, Ok)
       ELSE /\ quotes' = quotes
            /\ lastOp' = Op("Quote.updateStatus", id, status, 0, Err("NOT_FOUND"))
    /\ UNCHANGED invoices

\* newId is the id generateId() returns; it is fresh
Quote_duplicate(id, newId) ==
    /\ newId \notin DOMAIN quotes
    /\ IF id \in DOMAIN quotes
       THEN /\ quotes' = Put(quotes, newId,
                   DuplicatedQuote(quotes[id], generateQuoteNumber(quotes)))
            /\ lastOp' = Op("Quote.duplicate", id, newId, 0, Ok)
       ELSE /\ quotes' = quotes
            /\ lastOp' = Op("Quote.duplicate", id, NoValue, 0, Err("NOT_FOUND"))
    /\ UNCHANGED invoices

Quote_delete(id) ==
    /\ IF id \in DOMAIN quotes
       THEN /\ quotes' = Remove(quotes, id)
            /\ lastOp' = Op("Quote.delete", id, NoValue, 0, Ok)
       ELSE /\ quotes' = quotes
            /\ lastOp' = Op("Quote.delete", id, NoValue, 0, Err("NOT_FOUND"))
    /\ UNCHANGED invoices

-----------------------------------------------------------------------------
(* Inputs of the document services and their specifications.               *)

MaxLineItems == 2      \* longest item list a caller passes
MaxPaid == 34          \* recordPayment is not called beyond this paid amount

InvoiceIds == {"invoice-1"}
QuoteIds == {"quote-1", "quote-2"}

\* an item as create receives it (Omit<Item, 'id' | 'amount'>)
DocItemShapes ==
    {[quantity |-> 1, unitPrice |-> 15, taxable |-> TRUE],
     [quantity |-> 2, unitPrice |-> 15, taxable |-> FALSE]}
\* an item as update receives it: it carries an amount the caller made up
StaleItemShapes ==
    {[quantity |-> 1, unitPrice |-> 15, taxable |-> TRUE, amount |-> 7],
     [quantity |-> 2, unitPrice |-> 15, taxable |-> FALSE, amount |-> 0]}
SeqsUpTo(S, n) == UNION {[1..k -> S] : k \in 0..n}

TaxRateInputs == {8, 10}
CreateInputs ==
    {[items |-> l] : l \in SeqsUpTo(DocItemShapes, MaxLineItems)}
    \cup {[items |-> l, taxRate |-> r] :
            l \in SeqsUpTo(DocItemShapes, MaxLineItems), r \in TaxRateInputs}
UpdateInputs ==
    {[items |-> l] : l \in SeqsUpTo(StaleItemShapes, MaxLineItems)}
    \cup {[taxRate |-> r] : r \in TaxRateInputs}
    \cup {[subtotal |-> 999, taxAmount |-> 999, totalAmount |-> 999]}
PayInputs == {0, 16, 17}

DocInit ==
    /\ invoices = EmptyStore
    /\ quotes = EmptyStore
    /\ lastOp = Op("none", NoValue, NoValue, 0, Ok)

CanPay(id, amount) ==
    id \in DOMAIN invoices => invoices[id].paidAmount + amount <= MaxPaid

\* the handful of inputs both document services are run on side by side
DocStatusInputs == {"Sent"}
DocPayInputs == {16}
TaxableItem == [quantity |-> 1, unitPrice |-> 15, taxable |-> TRUE]
NonTaxableItem == [quantity |-> 2, unitPrice |-> 15, taxable |-> FALSE]
DocsCreateInputs ==
    {[items |-> <<TaxableItem, NonTaxableItem>>],
     [items |-> <<TaxableItem>>, taxRate |-> 8]}
DocsUpdateInputs ==
    {[items |-> <<[quantity |-> 2, unitPrice |-> 15, taxable |-> FALSE, amount |-> 0],
                  [quantity |-> 1, unitPrice |-> 15, taxable |-> TRUE, amount |-> 7],
                  [quantity |-> 1, unitPrice |-> 15, taxable |-> TRUE, amount |-> 15]>>],
     [taxRate |-> 8],
     [subtotal |-> 999, taxAmount |-> 999, totalAmount |-> 999]}
-----------------------------------------------------------------------------
(* Claims about the document services.                                     *)

PricedCorrectly(doc) ==
    /\ \A i \in 1..Len(doc.items) :
          doc.items[i].amount = doc.items[i].quantity * doc.items[i].unitPrice
    /\ doc.subtotal = SumSeq(AmountsOf(doc.items))
    /\ doc.taxAmount =
          (SumSeq([i \in 1..Len(doc.items) |->
                      IF doc.items[i].taxable THEN doc.items[i].amount ELSE 0])
           * doc.taxRate) \div 100
    /\ doc.totalAmount = doc.subtotal + doc.taxAmount

\* C1: every stored quote and invoice has item amounts quantity x unitPrice,
\* subtotal = sum of all amounts, taxAmount = floor(rate x taxable amounts
\* only) and totalAmount = subtotal + taxAmount.
C1_PricingInvariant ==
    /\ \A id \in DOMAIN invoices : PricedCorrectly(invoices[id])
    /\ \A id \in DOMAIN quotes : PricedCorrectly(quotes[id])

\* a mixed invoice whose tax was truncated, next to a duplicated quote with a
\* non-taxable item, after an update that passed made-up amounts
C1_Witness ==
    /\ \E id \in DOMAIN invoices :
          /\ invoices[id].subtotal = 45 /\ invoices[id].taxAmount = 1
          /\ invoices[id].totalAmount = 46
          /\ invoices[id].paidAmount = 16
    /\ \E a, b \in DOMAIN quotes :
          /\ a # b /\ quotes[a].items = quotes[b].items
          /\ quotes[a].subtotal = 60 /\ quotes[a].taxAmount = 2
          /\ quotes[a].taxRate = 8
    /\ lastOp.op = "Invoice.update"

PaymentStep(id) ==
    /\ lastOp'.op = "Invoice.recordPayment" /\ lastOp'.ok /\ lastOp'.id = id
    /\ id \in DOMAIN invoices /\ id \in DOMAIN invoices'

\* The threshold rule of recordPayment, with p the new cumulative paid amount
\* and t the total; zeroRule says what p = 0 does.
ThresholdRule(old, new, amount, zeroRule) ==
    LET p == new.paidAmount
        t == old.totalAmount
    IN  /\ p = old.paidAmount + amount
        /\ new.totalAmount = t
        /\ (p > t => new.status = "Overpaid")
        /\ (p = t /\ p > 0 => new.status = "Paid")
        /\ (0 < p /\ p < t => new.status = "PartiallyPaid")
        /\ zeroRule

\* C4 as claimed: recordPayment adds the amount and sets the status by the
\* thresholds, and p = 0 leaves the status unchanged, also when t = 0.
C4_AsClaimed ==
    [][\A id \in InvoiceIds : PaymentStep(id) =>
          ThresholdRule(invoices[id], invoices'[id], lastOp'.amount,
              invoices'[id].paidAmount = 0 =>
                  invoices'[id].status = invoices[id].status)]_docVars

\* C4 (amended): recordPayment adds the amount to paidAmount and sets the
\* status by the thresholds tested in the code's order: p > t Overpaid,
\* p = t Paid (also when p = t = 0), 0 < p < t PartiallyPaid, and p = 0 leaves
\* the status unchanged only when t > 0.
C4_PaymentRule ==
    [][\A id \in InvoiceIds : PaymentStep(id) =>
          ThresholdRule(invoices[id], invoices'[id], lastOp'.amount,
              /\ (invoices'[id].paidAmount = 0 /\ invoices[id].totalAmount > 0
                    => invoices'[id].status = invoices[id].status)
              /\ (invoices'[id].paidAmount = 0 /\ invoices[id].totalAmount = 0
                    => invoices'[id].status = "Paid"))]_docVars

\* two payments, 16 then 17, have just reached a total of 33 exactly
C4_Witness ==
    /\ lastOp.op = "Invoice.recordPayment" /\ lastOp.ok /\ lastOp.amount = 17
    /\ \E id \in DOMAIN invoices :
          /\ invoices[id].paidAmount = 33 /\ invoices[id].totalAmount = 33
          /\ invoices[id].status = "Paid"

\* The status state machine of the invoice
StatusEdges ==
    {<<"Draft", "Issued">>, <<"Issued", "Sent">>,
     <<"Sent", "PartiallyPaid">>, <<"Sent", "Paid">>, <<"Sent", "Overpaid">>,
     <<"PartiallyPaid", "Paid">>, <<"PartiallyPaid", "Overpaid">>,
     <<"Sent", "Uncollected">>, <<"Sent", "Cancelled">>,
     <<"Draft", "Cancelled">>, <<"Issued", "Cancelled">>,
     <<"Issued", "Uncollected">>}
PaymentStatuses == {"PartiallyPaid", "Paid", "Overpaid"}

StatusChanged(id) ==
    /\ id \in DOMAIN invoices /\ id \in DOMAIN invoices'
    /\ invoices'[id].status # invoices[id].status

-----------------------------------------------------------------------------
(* The line-item table and ProjectItemService.                             *)
(*                                                                         *)
(* A row is the ProjectItem that recordToProjectItem makes of a record: a  *)
(* missing number is 0, a missing date is NoDate, a missing month label is *)
(* the empty string (as falsy as undefined in every test the code makes).  *)

NoDate == [y |-> 0, m |-> 0]
Jan == [y |-> 2024, m |-> 1]
Feb == [y |-> 2024, m |-> 2]

\* String(n).padStart(2, '0')
Pad2(n) == IF n < 10 THEN "0" \o ToString(n) ELSE ToString(n)

\* ProjectItemService.getMonthString: `${year}年${month}月`
getMonthString(date) == ToString(date.y) \o "y" \o Pad2(date.m) \o "m"

\* String.prototype.includes, for labels made of a month string and at most
\* one decoration before and after it
Affixes == {"", "*"}
Includes(label, target) ==
    \E pre \in Affixes, suf \in Affixes : label = pre \o target \o suf

\* the options of getInvoiceGroups; a flag is "true", "false" or "undefined",
\* an absent client is "", an absent year/month is NoDate
Truthy(flag) == flag = "true"
NoOptions ==
    [clientName |-> "", ym |-> NoDate, onlyUnInvoiced |-> "undefined"]

\* LarkBaseClient.listRecords with page_size: the first page of the table
FetchPage(tbl, pageSize) ==
    SubSeq(tbl, 1, IF Len(tbl) < pageSize THEN Len(tbl) ELSE pageSize)

GROUP_PAGE_SIZE == 500

\* ProjectItemService.list: the page, filtered by client and invoiced flag
\* (isInvoiced is "undefined" when the caller does not filter on it)
ListItems(tbl, pageSize, clientName, isInvoiced) ==
    LET page == FetchPage(tbl, pageSize)
        ByClient(item) == clientName = "" \/ item.clientName = clientName
        ByFlag(item) ==
            isInvoiced = "undefined" \/ item.isInvoiced = Truthy(isInvoiced)
    IN  SelectSeq(SelectSeq(page, ByClient), ByFlag)

\* the month an item is grouped under:
\* item.invoiceMonth || getMonthString(item.submissionDate || new Date())
ResolvedMonth(item, today) ==
    IF item.invoiceMonth # "" THEN item.invoiceMonth
    ELSE getMonthString(IF item.submissionDate # NoDate
                        THEN item.submissionDate ELSE today)

\* the year/month filter of getInvoiceGroups
MatchesYearMonth(item, ym) ==
    IF item.invoiceMonth # "" THEN Includes(item.invoiceMonth, getMonthString(ym))
    ELSE IF item.invoiceDate # NoDate
         THEN item.invoiceDate.y = ym.y /\ item.invoiceDate.m = ym.m
         ELSE FALSE

\* a selection that forgets the delivery status
EligibleItems_anyStatus(tbl, opts) ==
    LET listed == ListItems(tbl, GROUP_PAGE_SIZE, opts.clientName,
                      IF Truthy(opts.onlyUnInvoiced) THEN "false" ELSE "undefined")
        InMonth(item) == MatchesYearMonth(item, opts.ym)
    IN  IF opts.ym # NoDate THEN SelectSeq(listed, InMonth) ELSE listed

\* the items getInvoiceGroups groups: delivered, and of the month asked for
EligibleItems(tbl, opts) ==
    LET listed == ListItems(tbl, GROUP_PAGE_SIZE, opts.clientName,
                      IF Truthy(opts.onlyUnInvoiced) THEN "false" ELSE "undefined")
        Delivered(item) == item.status = "delivered"
        InMonth(item) == MatchesYearMonth(item, opts.ym)
        delivered == SelectSeq(listed, Delivered)
    IN  IF opts.ym # NoDate THEN SelectSeq(delivered, InMonth) ELSE delivered

\* a key that forgets the client
GroupKey_monthOnly(item, today) == ResolvedMonth(item, today)

\* the Map key of a group
GroupKey(item, today) == item.clientName \o "|" \o ResolvedMonth(item, today)

\* the body of the for-loop over the items: the item joins the group of its
\* key, or opens one at the end of the Map
GroupStep(groups, item, today) ==
    LET key == GroupKey(item, today)
        at  == {i \in 1..Len(groups) : groups[i].key = key}
    IN  IF at = {}
        THEN Append(groups,
                 [key          |-> key,
                  clientName   |-> item.clientName,
                  invoiceMonth |-> ResolvedMonth(item, today),
                  items        |-> <<item>>])
        ELSE [groups EXCEPT ![CHOOSE i \in at : TRUE].items = Append(@, item)]

\* the for-loop over the items: a Map in insertion order; the items are
\* taken in order, the Map of the first half (never empty) being built
\* before the second half is taken
RECURSIVE BuildGroups(_, _, _)
BuildGroups(items, groups, today) ==
    IF items = <<>> THEN groups
    ELSE IF Len(items) = 1 THEN GroupStep(groups, items[1], today)
    ELSE LET first == BuildGroups(SubSeq(items, 1, Len(items) \div 2), groups, today)
         IN  IF first # <<>>
             THEN BuildGroups(SubSeq(items, (Len(items) \div 2) + 1, Len(items)),
                              first, today)
             ELSE first

\* the order of month labels under localeCompare, smallest first
LabelOrder == <<"2024y01m", "2024y01m*", "2024y02m">>
LabelRank(label) == CHOOSE i \in 1..Len(LabelOrder) : LabelOrder[i] = label

\* result.sort((a, b) => b.invoiceMonth.localeCompare(a.invoiceMonth)):
\* a stable sort, month labels descending
RECURSIVE InsertGroup(_, _)
InsertGroup(sorted, g) ==
    IF sorted = <<>> THEN <<g>>
    ELSE IF LabelRank(Head(sorted).invoiceMonth) >= LabelRank(g.invoiceMonth)
         THEN <<Head(sorted)>> \o InsertGroup(Tail(sorted), g)
         ELSE <<g>> \o sorted
RECURSIVE SortGroups(_, _)
\* no sort: the groups in the order they were built
SortGroups_unsorted(groups, sorted) == groups
SortGroups(groups, sorted) ==
    IF groups = <<>> THEN sorted
    ELSE SortGroups(Tail(groups), InsertGroup(sorted, Head(groups)))

\* ProjectItemService.getInvoiceGroups, once the list call has succeeded
getInvoiceGroups(tbl, opts, today) ==
    LET built == BuildGroups(EligibleItems(tbl, opts), <<>>, today)
        result == [i \in 1..Len(built) |->
                     [clientName   |-> built[i].clientName,
                      invoiceMonth |-> built[i].invoiceMonth,
                      items        |-> built[i].items,
                      totalAmount  |-> SumSeq(AmountsOf(built[i].items)),
                      itemCount    |-> Len(built[i].items)]]
    IN  SortGroups(result, <<>>)

-----------------------------------------------------------------------------
(* LarkBaseInvoiceService over one reading of the table.                   *)

FREEE_TAX_RATE == 10      \* FREEE_EXPORT_CONFIG.taxRate, 0.1

\* getInvoicePreviews: the groups, priced
PreviewsOf(groups) ==
    [i \in 1..Len(groups) |->
        [clientName   |-> groups[i].clientName,
         invoiceMonth |-> groups[i].invoiceMonth,
         items        |-> groups[i].items,
         subtotal     |-> groups[i].totalAmount,
         taxAmount    |-> TaxOf(groups[i].totalAmount, FREEE_TAX_RATE),
         totalAmount  |-> groups[i].totalAmount
                          + TaxOf(groups[i].totalAmount, FREEE_TAX_RATE),
         itemCount    |-> groups[i].itemCount]]

\* a find that takes the client's first group, whatever its month
FindGroup_anyMonth(groups, clientName, invoiceMonth) ==
    LET Hit(g) == g.clientName = clientName
        hits == SelectSeq(groups, Hit)
    IN  IF hits = <<>> THEN <<>> ELSE <<Head(hits)>>

\* groupsResult.data.find(g => g.clientName === clientName &&
\*                             g.invoiceMonth === invoiceMonth):
\* the first match, as a sequence of length 0 or 1
FindGroup(groups, clientName, invoiceMonth) ==
    LET Hit(g) == g.clientName = clientName /\ g.invoiceMonth = invoiceMonth
        hits == SelectSeq(groups, Hit)
    IN  IF hits = <<>> THEN <<>> ELSE <<Head(hits)>>

\* generateInvoice: the invoice built from the target group
InvoiceOfGroup(group) ==
    [status      |-> "Draft",
     clientId    |-> group.clientName,
     items       |-> [i \in 1..Len(group.items) |->
                        [recordId    |-> group.items[i].recordId,
                         quantity    |-> group.items[i].quantity,
                         unitPrice   |-> group.items[i].unitPrice,
                         amount      |-> group.items[i].amount,
                         taxable     |-> TRUE,
                         taxCategory |-> "taxable-sales-10%"]],
     subtotal    |-> group.totalAmount,
     taxRate     |-> FREEE_TAX_RATE,
     taxAmount   |-> TaxOf(group.totalAmount, FREEE_TAX_RATE),
     totalAmount |-> group.totalAmount + TaxOf(group.totalAmount, FREEE_TAX_RATE),
     paidAmount  |-> 0]

\* the outcome of one request to the record store: success, a transport
\* error (REQUEST_FAILED) or an error code of the remote API
FetchOutcomes == {"OK", "REQUEST_FAILED", "API_ERROR"}

\* what a call returned: groups, previews and invoice are empty when absent
Returned(op, opts, month, code, groups, previews, invoice) ==
    [op |-> op, opts |-> opts, month |-> month, ok |-> code = "OK",
     code |-> code, groups |-> groups, previews |-> previews,
     invoice |-> invoice]
NoCall == Returned("none", NoOptions, "", "OK", <<>>, <<>>, <<>>)

\* ProjectItemService.getInvoiceGroups(options)
Call_getInvoiceGroups(opts, outcome) ==
    /\ call' = IF outcome = "OK"
               THEN Returned("getInvoiceGroups", opts, "", "OK",
                        getInvoiceGroups(table, opts, now), <<>>, <<>>)
               ELSE Returned("getInvoiceGroups", opts, "", outcome,
                        <<>>, <<>>, <<>>)
    /\ UNCHANGED <<table, now>>

\* LarkBaseInvoiceService.getInvoicePreviews(options):
\* onlyUnInvoiced: options?.onlyUnInvoiced ?? true
Call_getInvoicePreviews(opts, outcome) ==
    LET passed == [opts EXCEPT !.onlyUnInvoiced =
                      IF @ = "undefined" THEN "true" ELSE @]
    IN  /\ call' = IF outcome = "OK"
                   THEN Returned("getInvoicePreviews", opts, "", "OK", <<>>,
                            PreviewsOf(getInvoiceGroups(table, passed, now)),
                            <<>>)
                   ELSE Returned("getInvoicePreviews", opts, "", outcome,
                            <<>>, <<>>, <<>>)
        /\ UNCHANGED <<table, now>>

\* the result of generateInvoice(clientName, invoiceMonth) on a table
generateInvoice(tbl, clientName, invoiceMonth, today, outcome) ==
    LET opts   == [clientName |-> clientName, ym |-> NoDate,
                   onlyUnInvoiced |-> "true"]
        groups == getInvoiceGroups(tbl, opts, today)
        target == FindGroup(groups, clientName, invoiceMonth)
    IN  IF outcome # "OK"
        THEN Returned("generateInvoice", opts, invoiceMonth, outcome,
                 <<>>, <<>>, <<>>)
        ELSE IF target = <<>>
        THEN Returned("generateInvoice", opts, invoiceMonth, "NOT_FOUND",
                 <<>>, <<>>, <<>>)
        ELSE Returned("generateInvoice", opts, invoiceMonth, "OK",
                 target, <<>>, <<InvoiceOfGroup(target[1])>>)

\* LarkBaseInvoiceService.generateInvoice(clientName, invoiceMonth, options)
Call_generateInvoice(clientName, invoiceMonth, outcome) ==
    /\ call' = generateInvoice(table, clientName, invoiceMonth, now, outcome)
    /\ UNCHANGED <<table, now>>

-----------------------------------------------------------------------------
(* The tables and options the grouping engine is checked on.               *)

MaxItems == 2       \* rows in the table

Clients == {"ontsugi", "nakamura"}

\* where a row's month comes from: the label, the submission date, the
\* current date; the third has an invoice date of another month
MonthShapes ==
    {[invoiceMonth |-> "2024y01m", submissionDate |-> NoDate, invoiceDate |-> NoDate],
     [invoiceMonth |-> "", submissionDate |-> Jan, invoiceDate |-> NoDate],
     [invoiceMonth |-> "", submissionDate |-> Feb, invoiceDate |-> Jan],
     [invoiceMonth |-> "", submissionDate |-> NoDate, invoiceDate |-> NoDate]}
StateShapes ==
    {[status |-> "delivered", isInvoiced |-> FALSE],
     [status |-> "delivered", isInvoiced |-> TRUE],
     [status |-> "submitted", isInvoiced |-> FALSE]}

\* row k holds quantity k at a unit price that makes every sum of amounts
\* tell which rows were added up: 15, 40, 90, 180, ...
UnitPriceOf(k) == 15 + 5 * ((k * (k - 1)) \div 2)
Row(k, clientName, st, mo) ==
    [recordId       |-> k,
     clientName     |-> clientName,
     status         |-> st.status,
     isInvoiced     |-> st.isInvoiced,
     invoiceMonth   |-> mo.invoiceMonth,
     submissionDate |-> mo.submissionDate,
     invoiceDate    |-> mo.invoiceDate,
     quantity       |-> k,
     unitPrice      |-> UnitPriceOf(k),
     amount         |-> k * UnitPriceOf(k)]
RowsAt(k) == {Row(k, c, st, mo) : c \in Clients, st \in StateShapes, mo \in MonthShapes}
Tables ==
    UNION {{t \in [1..n -> UNION {RowsAt(k) : k \in 1..n}] :
               \A k \in 1..n : t[k].recordId = k} : n \in 0..MaxItems}

ClientOptions == {"", "ontsugi"}
YearMonthOptions == {NoDate, Jan, Feb}
FlagOptions == {"undefined", "true", "false"}
GroupOptions ==
    [clientName : ClientOptions, ym : YearMonthOptions, onlyUnInvoiced : FlagOptions]
MonthLabels == {"2024y01m", "2024y02m"}

GroupsInit ==
    /\ table \in Tables
    /\ now = Feb
    /\ call = NoCall

-----------------------------------------------------------------------------
(* Claims about the grouping engine.                                       *)

\* The rows, and what the claims say of a row, without the engine's code
RowIds == 1..Len(table)
IsDelivered(k) == table[k].status = "delivered"
MonthOfRow(k) ==
    IF table[k].invoiceMonth # "" THEN table[k].invoiceMonth
    ELSE IF table[k].submissionDate # NoDate
         THEN getMonthString(table[k].submissionDate)
         ELSE getMonthString(now)
\* eligible under explicit options: delivered, of the client when one is given,
\* not invoiced when unbilled-only is true
Eligible(k, opts) ==
    /\ IsDelivered(k)
    /\ (opts.clientName # "" => table[k].clientName = opts.clientName)
    /\ (opts.onlyUnInvoiced = "true" => ~table[k].isInvoiced)
\* the places <<g, j>> of the returned groups that hold row k
PlacesOf(groups, k) ==
    {p \in UNION {{<<g, j>> : j \in 1..Len(groups[g].items)} : g \in 1..Len(groups)} :
        groups[p[1]].items[p[2]].recordId = k}
MembersOf(groups) ==
    UNION {{groups[g].items[j].recordId : j \in 1..Len(groups[g].items)} :
              g \in 1..Len(groups)}
SumOver(S, f(_)) ==
    LET RECURSIVE Sum(_)
        Sum(T) == IF T = {} THEN 0
                  ELSE LET x == CHOOSE x \in T : TRUE IN f(x) + Sum(T \ {x})
    IN  Sum(S)
AmountOfRow(k) == table[k].amount

GroupsReturned ==
    call.op = "getInvoiceGroups" /\ call.ok

\* C2: with no year/month filter the groups partition the eligible rows: each
\* eligible row is in exactly one group, which carries the row's client and
\* resolved month; a group's totalAmount and itemCount are the sum and number
\* of its members; the totals add up to the amounts of the eligible rows.
C2_Partition ==
    (GroupsReturned /\ call.opts.ym = NoDate /\ call.opts.onlyUnInvoiced # "undefined") =>
        LET groups == call.groups
            E == {k \in RowIds : Eligible(k, call.opts)}
            TotalOfGroup(g) == groups[g].totalAmount
        IN  /\ MembersOf(groups) = E
            /\ \A k \in E :
                  /\ Cardinality(PlacesOf(groups, k)) = 1
                  /\ \A p \in PlacesOf(groups, k) :
                        /\ groups[p[1]].clientName = table[k].clientName
                        /\ groups[p[1]].invoiceMonth = MonthOfRow(k)
                        /\ groups[p[1]].items[p[2]] = table[k]
            /\ \A g \in 1..Len(groups) :
                  /\ groups[g].itemCount = Len(groups[g].items)
                  /\ groups[g].totalAmount = SumSeq(AmountsOf(groups[g].items))
            /\ SumOver(1..Len(groups), TotalOfGroup) = SumOver(E, AmountOfRow)

\* two rows of one client whose month comes from the label and from the
\* submission date share a group; both totals are 55
C2_Witness ==
    /\ GroupsReturned /\ call.opts.ym = NoDate /\ call.opts.onlyUnInvoiced = "true"
    /\ Len(call.groups) = 1
    /\ call.groups[1].itemCount = 2
    /\ call.groups[1].totalAmount = 55
    /\ call.groups[1].items[1].invoiceMonth # call.groups[1].items[2].invoiceMonth

\* the year/month filter as the code applies it
PassesMonthFilter(k, ym) ==
    \/ ym = NoDate
    \/ table[k].invoiceMonth # "" /\ Includes(table[k].invoiceMonth, getMonthString(ym))
    \/ table[k].invoiceMonth = "" /\ table[k].invoiceDate = ym

\* C3: every member of a returned group is delivered, is not invoiced when
\* unbilled-only is true and has the client asked for; and no row that meets
\* these conditions and the year/month filter is left out.
C3_Eligibility ==
    GroupsReturned =>
        LET groups == call.groups
            opts == call.opts
        IN  /\ \A k \in MembersOf(groups) :
                  /\ k \in RowIds
                  /\ IsDelivered(k)
                  /\ (opts.onlyUnInvoiced = "true" => ~table[k].isInvoiced)
                  /\ (opts.clientName # "" => table[k].clientName = opts.clientName)
            /\ \A k \in RowIds :
                  (Eligible(k, opts) /\ PassesMonthFilter(k, opts.ym))
                      => k \in MembersOf(groups)

\* a call with all three filters that kept one row and left the other out
C3_Witness ==
    /\ GroupsReturned
    /\ call.opts.onlyUnInvoiced = "true" /\ call.opts.clientName = "ontsugi"
    /\ call.opts.ym = Jan
    /\ Len(table) = 2 /\ Cardinality(MembersOf(call.groups)) = 1
    /\ \E k \in RowIds : k \notin MembersOf(call.groups) /\ table[k].isInvoiced
                         /\ IsDelivered(k)

\* C7 as claimed: with a year and month the call keeps exactly the eligible
\* rows whose resolved month (label, else submission month, else the current
\* month) is the month asked for, and every group carries that month.
C7_AsClaimed ==
    (GroupsReturned /\ call.opts.ym # NoDate) =>
        LET want == getMonthString(call.opts.ym)
            E == {k \in RowIds : Eligible(k, call.opts) /\ MonthOfRow(k) = want}
        IN  /\ MembersOf(call.groups) = E
            /\ \A g \in 1..Len(call.groups) : call.groups[g].invoiceMonth = want

PreviewsReturned ==
    call.op = "getInvoicePreviews" /\ call.ok

\* C8 as claimed: a group computation called without the unbilled-only option
\* never returns a row whose invoiced flag is true.
C8_AsClaimed ==
    call.opts.onlyUnInvoiced = "undefined" =>
        /\ GroupsReturned =>
              \A k \in MembersOf(call.groups) : ~table[k].isInvoiced
        /\ PreviewsReturned =>
              \A k \in MembersOf(call.previews) : ~table[k].isInvoiced

\* the rows in table order
RECURSIVE InOrder(_)
InOrder(S) ==
    IF S = {} THEN <<>>
    ELSE LET k == CHOOSE x \in S : \A y \in S : x <= y
         IN  <<k>> \o InOrder(S \ {k})

\* C10: generateInvoice(client, month) returns NOT_FOUND and no invoice when
\* no delivered, unbilled row of the client resolves to the month; otherwise
\* (the table having been read) it returns a Draft invoice with paidAmount 0,
\* one taxable item per such row in table order, subtotal the sum of their
\* amounts, tax floor(subtotal x 0.1), total subtotal + tax; the table is
\* left as it was.
C10_GenerateInvoice ==
    /\ [](call.op = "generateInvoice" =>
            LET c == call.opts.clientName
                G == {k \in RowIds : /\ IsDelivered(k) /\ ~table[k].isInvoiced
                                     /\ table[k].clientName = c
                                     /\ MonthOfRow(k) = call.month}
                rows == InOrder(G)
            IN  /\ call.code = "NOT_FOUND" => G = {} /\ call.invoice = <<>>
                /\ call.code \notin {"OK", "NOT_FOUND"} => call.invoice = <<>>
                /\ call.code = "OK" =>
                      /\ G # {} /\ Len(call.invoice) = 1
                      /\ LET inv == call.invoice[1]
                         IN  /\ inv.status = "Draft" /\ inv.paidAmount = 0
                             /\ Len(inv.items) = Len(rows)
                             /\ \A i \in 1..Len(rows) :
                                   /\ inv.items[i].recordId = rows[i]
                                   /\ inv.items[i].quantity = table[rows[i]].quantity
                                   /\ inv.items[i].unitPrice = table[rows[i]].unitPrice
                                   /\ inv.items[i].taxable
                                   /\ inv.items[i].taxCategory = "taxable-sales-10%"
                             /\ inv.subtotal = SumOver(G, AmountOfRow)
                             /\ inv.taxAmount = (inv.subtotal * 10) \div 100
                             /\ inv.totalAmount = inv.subtotal + inv.taxAmount)
    /\ [][call'.op = "generateInvoice" => table' = table]_allVars

\* an invoice of two rows: 15 + 40 = 55, tax 5 (5.5 truncated), total 60
C10_Witness ==
    /\ call.op = "generateInvoice" /\ call.ok
    /\ Len(call.invoice) = 1
    /\ Len(call.invoice[1].items) = 2
    /\ call.invoice[1].subtotal = 55 /\ call.invoice[1].taxAmount = 5
    /\ call.invoice[1].totalAmount = 60

-----------------------------------------------------------------------------
(* LarkBaseInvoiceService.issueInvoice against the record store: every      *)
(* await of the call is a step, and the store changes between the steps.    *)

\* LarkBaseClient.updateRecord with the fields markAsInvoiced sends, where
\* the write keeps the date and loses the flag
markAsInvoiced_dateOnly(tbl, recordId, invoiceDate) ==
    [k \in 1..Len(tbl) |->
        IF tbl[k].recordId = recordId
        THEN [tbl[k] EXCEPT !.invoiceDate = invoiceDate]
        ELSE tbl[k]]

\* ProjectItemService.markAsInvoiced, when the store accepts the update:
\* update(recordId, {isInvoiced: true, invoiceDate})
markAsInvoiced(tbl, recordId, invoiceDate) ==
    [k \in 1..Len(tbl) |->
        IF tbl[k].recordId = recordId
        THEN [tbl[k] EXCEPT !.isInvoiced = TRUE, !.invoiceDate = invoiceDate]
        ELSE tbl[k]]

\* the locals of a call that has not begun
IdleJob ==
    [clientName |-> "", invoiceMonth |-> "", code |-> "", invoice |-> <<>>,
     targets |-> <<>>, next |-> 0, invoiceDate |-> NoDate,
     allOk |-> TRUE, dirty |-> FALSE, drift |-> FALSE, settled |-> "no"]

\* the rows that are delivered, unbilled and resolve to (client, month)
OpenRows(tbl, today, key) ==
    {k \in 1..Len(tbl) :
        /\ tbl[k].status = "delivered" /\ ~tbl[k].isInvoiced
        /\ tbl[k].clientName = key[1]
        /\ ResolvedMonth(tbl[k], today) = key[2]}

\* the (client, month) pairs that a change of the store or of the date
\* has given a row they did not have
Gained(tbl, today, tbl2, today2) ==
    {key \in Clients \X MonthLabels :
        \E k \in OpenRows(tbl2, today2, key) :
            k > Len(tbl) \/ k \notin OpenRows(tbl, today, key)}

KeyOf(j) == <<j.clientName, j.invoiceMonth>>

\* what a change of the store or of the date does to the histories:
\* byDate tells a change of the current month from a change of a row
Notice(tbl2, today2, byDate) ==
    LET gained == Gained(table, now, tbl2, today2)
        Touched(p) == pc[p] = "mark" /\ KeyOf(job[p]) \in gained
    IN  /\ issued' = IF byDate THEN issued ELSE issued \ gained
        /\ drifted' = IF byDate THEN drifted \cup (issued \cap gained)
                      ELSE drifted \ gained
        /\ job' = [p \in DOMAIN job |->
                     IF ~Touched(p) THEN job[p]
                     ELSE IF byDate THEN [job[p] EXCEPT !.drift = TRUE]
                     ELSE [job[p] EXCEPT !.dirty = TRUE]]

\* issueInvoice(clientName, invoiceMonth, options) up to the return of
\* generateInvoice: the first reading of the table
Issue_generate(p, clientName, invoiceMonth, outcome) ==
    LET res == generateInvoice(table, clientName, invoiceMonth, now, outcome)
        key == <<clientName, invoiceMonth>>
    IN  /\ pc[p] = "idle"
        /\ job' = [job EXCEPT ![p] =
                     [IdleJob EXCEPT
                        !.clientName = clientName,
                        !.invoiceMonth = invoiceMonth,
                        !.code = IF res.ok THEN "" ELSE res.code,
                        !.invoice = res.invoice,
                        !.settled = IF key \notin issued THEN "no"
                                    ELSE IF key \in drifted THEN "drifted"
                                    ELSE "settled"]]
        /\ pc' = [pc EXCEPT ![p] = IF res.ok THEN "refetch" ELSE "done"]
        /\ UNCHANGED <<table, now, issued, drifted>>

\* the second getInvoiceGroups of issueInvoice and the choice of the rows
\* to mark; invoiceDate = new Date()
Issue_refetch(p, outcome) ==
    LET j      == job[p]
        opts   == [clientName |-> j.clientName, ym |-> NoDate,
                   onlyUnInvoiced |-> "true"]
        target == FindGroup(getInvoiceGroups(table, opts, now),
                            j.clientName, j.invoiceMonth)
    IN  /\ pc[p] = "refetch"
        /\ IF outcome # "OK"
           THEN /\ job' = [job EXCEPT ![p].code = outcome]
                /\ pc' = [pc EXCEPT ![p] = "done"]
           ELSE IF target = <<>>
           THEN /\ job' = [job EXCEPT ![p].code = "NOT_FOUND"]
                /\ pc' = [pc EXCEPT ![p] = "done"]
           ELSE /\ job' = [job EXCEPT ![p].targets = target[1].items,
                                      ![p].next = 1,
                                      ![p].invoiceDate = now]
                /\ pc' = [pc EXCEPT ![p] = "mark"]
        /\ UNCHANGED <<table, now, issued, drifted>>

\* one turn of the loop `await markAsInvoiced(item.recordId, invoiceDate)`,
\* whose result the loop does not look at; after the last turn the call
\* sets the status to Issued and returns success
Issue_mark(p, outcome) ==
    LET j     == job[p]
        last  == j.next = Len(j.targets)
        allOk == j.allOk /\ outcome = "OK"
        key   == KeyOf(j)
    IN  /\ pc[p] = "mark"
        /\ table' = IF outcome = "OK"
                    THEN markAsInvoiced(table, j.targets[j.next].recordId,
                                        j.invoiceDate)
                    ELSE table
        /\ job' = [job EXCEPT
                     ![p].next = @ + 1,
                     ![p].allOk = allOk,
                     ![p].code = IF last THEN "OK" ELSE @,
                     ![p].invoice =
                        IF last THEN <<[@[1] EXCEPT !.status = "Issued"]>>
                        ELSE @]
        /\ pc' = [pc EXCEPT ![p] = IF last THEN "done" ELSE "mark"]
        /\ issued' = IF last /\ allOk /\ ~j.dirty THEN issued \cup {key}
                     ELSE issued
        /\ drifted' = IF last /\ allOk /\ ~j.dirty
                      THEN IF j.drift THEN drifted \cup {key}
                           ELSE drifted \ {key}
                      ELSE drifted
        /\ UNCHANGED now

\* the caller takes the result; the service is ready for the next call
Issue_taken(p) ==
    /\ pc[p] = "done"
    /\ pc' = [pc EXCEPT ![p] = "idle"]
    /\ job' = [job EXCEPT ![p] = IdleJob]
    /\ UNCHANGED <<table, now, issued, drifted>>

\* ProjectItemService.create: a new, unbilled row
Store_create(clientName, st, mo) ==
    LET tbl2 == Append(table, Row(Len(table) + 1, clientName, st, mo))
    IN  /\ table' = tbl2
        /\ Notice(tbl2, now, FALSE)
        /\ UNCHANGED <<now, pc>>

\* ProjectItemService.update(recordId, {status: delivered})
Store_deliver(k) ==
    LET tbl2 == [table EXCEPT ![k].status = "delivered"]
    IN  /\ k \in 1..Len(table)
        /\ table[k].status # "delivered"
        /\ table' = tbl2
        /\ Notice(tbl2, now, FALSE)
        /\ UNCHANGED <<now, pc>>

\* the month ends: new Date() reads the next month from now on
Tick ==
    /\ now = Jan
    /\ now' = Feb
    /\ Notice(table, Feb, TRUE)
    /\ UNCHANGED <<table, pc>>

-----------------------------------------------------------------------------
(* The calls and the rows issueInvoice is checked on.                       *)

MaxRows == 2       \* rows the table comes to hold

IssueCallers == {"A"}
IssueClients == Clients
\* a row dated by its label, and a row with neither label nor dates
IssueMonthShapes ==
    {[invoiceMonth |-> "2024y02m", submissionDate |-> NoDate, invoiceDate |-> NoDate],
     [invoiceMonth |-> "", submissionDate |-> NoDate, invoiceDate |-> NoDate]}
IssueStateShapes ==
    {[status |-> "delivered", isInvoiced |-> FALSE],
     [status |-> "submitted", isInvoiced |-> FALSE]}

IssueInit ==
    /\ table = <<>>
    /\ now = Jan
    /\ call = NoCall
    /\ pc = [p \in IssueCallers |-> "idle"]
    /\ job = [p \in IssueCallers |-> IdleJob]
    /\ issued = {}
    /\ drifted = {}

-----------------------------------------------------------------------------
(* Claims about issueInvoice.                                               *)

Failures == {"REQUEST_FAILED", "API_ERROR"}

\* a call that returned success with an Issued invoice
IssuedBy(p) ==
    /\ pc[p] = "done" /\ job[p].code = "OK"
    /\ job[p].invoice[1].status = "Issued"

\* C5 as claimed: issueInvoice returns success with status Issued only when
\* every member of the group was marked invoiced; a failed markAsInvoiced
\* makes it return a failure.
C5_AsClaimed ==
    \A p \in DOMAIN pc :
        IssuedBy(p) =>
            /\ job[p].allOk
            /\ \A i \in 1..Len(job[p].targets) :
                  table[job[p].targets[i].recordId].isInvoiced

\* C6 as claimed: a call for a (client, month) that was issued in full, to
\* which no row has been added or delivered since, returns NOT_FOUND (or
\* the failure of its reading of the table).
C6_AsClaimed ==
    \A p \in DOMAIN pc :
        job[p].settled # "no" =>
            pc[p] = "done" /\ job[p].code \in Failures \cup {"NOT_FOUND"}

\* C6: the invoiced flag of a row is never taken back; no unbilled-only
\* group, preview or generated invoice holds an invoiced row, and neither do
\* the rows issueInvoice chooses to mark; and a call for a (client, month)
\* that was issued in full returns NOT_FOUND (or the failure of its reading
\* of the table) unless a row has become eligible for the pair since: added,
\* delivered, or moved into the month by the change of the current month.
C6_Monotonic ==
    /\ [][\A k \in 1..Len(table) :
             table[k].isInvoiced => table'[k].isInvoiced]_allVars
    /\ [](\A opts \in GroupOptions :
             LET passed == [opts EXCEPT !.onlyUnInvoiced = "true"]
                 groups == getInvoiceGroups(table, passed, now)
             IN  \A k \in MembersOf(groups) \cup MembersOf(PreviewsOf(groups)) :
                    ~table[k].isInvoiced)
    /\ [][\A p \in DOMAIN pc :
             /\ job'[p].invoice # job[p].invoice /\ pc'[p] = "refetch" =>
                   \A i \in 1..Len(job'[p].invoice[1].items) :
                      ~table[job'[p].invoice[1].items[i].recordId].isInvoiced
             /\ job'[p].targets # job[p].targets /\ pc'[p] = "mark" =>
                   \A i \in 1..Len(job'[p].targets) :
                      ~table[job'[p].targets[i].recordId].isInvoiced]_allVars
    /\ [](\A p \in DOMAIN pc :
             job[p].settled = "settled" =>
                pc[p] = "done" /\ job[p].code \in Failures \cup {"NOT_FOUND"})

\* the second call for a pair issued in full was told NOT_FOUND, while the
\* table holds a row of the pair that the first call marked
C6_Witness ==
    \E p \in DOMAIN pc :
        /\ pc[p] = "done" /\ job[p].settled = "settled"
        /\ job[p].code = "NOT_FOUND"
        /\ \E k \in 1..Len(table) :
              /\ table[k].isInvoiced /\ table[k].clientName = job[p].clientName
              /\ ResolvedMonth(table[k], now) = job[p].invoiceMonth

-----------------------------------------------------------------------------
(* The amount of a line-item: what recordToProjectItem reads of a record.   *)

\* the number field of a record, as a sequence of length 0 (missing) or 1
\* getNumberValue: the number when there is one, else 0
getNumberValue(field) == IF field = <<>> THEN 0 ELSE field[1]

\* what the amount field of record k can hold: nothing, quantity x unit
\* price, or a number that is something else
StaleBy == 7
AmountFields(k) ==
    {<<>>, <<k * UnitPriceOf(k)>>, <<k * UnitPriceOf(k) + StaleBy>>}

\* recordToProjectItem: quantity, unitPrice and amount are read each from
\* its own field
recordToProjectItem(k, clientName, st, mo, amountField) ==
    [Row(k, clientName, st, mo) EXCEPT !.amount = getNumberValue(amountField)]

AmountStateShapes ==
    {[status |-> "delivered", isInvoiced |-> FALSE],
     [status |-> "delivered", isInvoiced |-> TRUE]}
AmountMonthShapes ==
    {[invoiceMonth |-> "2024y01m", submissionDate |-> NoDate, invoiceDate |-> NoDate],
     [invoiceMonth |-> "", submissionDate |-> NoDate, invoiceDate |-> NoDate]}
AmountRowsAt(k) ==
    {recordToProjectItem(k, "ontsugi", st, mo, f) :
        st \in AmountStateShapes, mo \in AmountMonthShapes, f \in AmountFields(k)}
AmountTables ==
    UNION {{t \in [1..n -> UNION {AmountRowsAt(k) : k \in 1..n}] :
               \A k \in 1..n : t[k].recordId = k} : n \in 0..MaxItems}

AmountsInit ==
    /\ table \in AmountTables
    /\ now = Feb
    /\ call = NoCall

\* C11 as claimed: every item of a generated invoice has amount = quantity x
\* unitPrice, whatever the record's amount field held, and the subtotal is
\* the sum of those products.
C11_AsClaimed ==
    (call.op = "generateInvoice" /\ call.ok) =>
        LET inv == call.invoice[1]
            Product(i) == inv.items[i].quantity * inv.items[i].unitPrice
        IN  /\ \A i \in 1..Len(inv.items) : inv.items[i].amount = Product(i)
            /\ inv.subtotal = SumOver(1..Len(inv.items), Product)

-----------------------------------------------------------------------------
(* FreeeExportService: invoices to journal entries to rows.                 *)
(*                                                                          *)
(* A Date is a number of ticks since 2024-01-01 00:00:00.000 local time;    *)
(* a day has TicksPerDay ticks: 00:00:00.000, 12:00:00.000, 23:59:59.000    *)
(* and 23:59:59.999.  A formatted date is the sequence of its characters.   *)
(* Accounts and tax categories are written in ASCII: 売掛金 "AR", 売上高     *)
(* "Sales", 仮受消費税 "TaxPayable", 普通預金 "Bank", 対象外 "out-of-scope", *)
(* 課売上10% "taxable-10", 非売上 "exempt".                                 *)

TicksPerDay == 4
MonthLengths == <<31, 29, 31, 30, 31, 30, 31, 31, 30, 31, 30, 31>>

\* getFullYear, getMonth() + 1, getDate of a Date of the year 2024
RECURSIVE MonthDay(_, _)
MonthDay(dayOfYear, month) ==
    IF dayOfYear < MonthLengths[month] THEN [m |-> month, d |-> dayOfYear + 1]
    ELSE MonthDay(dayOfYear - MonthLengths[month], month + 1)
CalendarOf(t) ==
    LET md == MonthDay(t \div TicksPerDay, 1)
    IN  [y |-> 2024, m |-> md.m, d |-> md.d]
\* new Date(2024, month - 1, day, ...) at tick `tick` of the day
RECURSIVE DaysBefore(_)
DaysBefore(month) ==
    IF month = 1 THEN 0 ELSE MonthLengths[month - 1] + DaysBefore(month - 1)
DateAt(month, day, tick) == (DaysBefore(month) + day - 1) * TicksPerDay + tick

DigitChars == <<"0", "1", "2", "3", "4", "5", "6", "7", "8", "9">>
\* String(n) for n >= 0
RECURSIVE DecChars(_)
DecChars(n) ==
    IF n < 10 THEN <<DigitChars[n + 1]>>
    ELSE DecChars(n \div 10) \o <<DigitChars[(n % 10) + 1]>>
\* padStart(2, '0')
PadStart2(chars) == IF Len(chars) < 2 THEN <<"0">> \o chars ELSE chars

\* FreeeExportService.formatDate: YYYY-MM-DD
formatDate(t) ==
    LET c == CalendarOf(t)
    IN  DecChars(c.y) \o <<"-">> \o PadStart2(DecChars(c.m))
          \o <<"-">> \o PadStart2(DecChars(c.d))

\* localeCompare on strings of digits and hyphens: -1, 0 or 1
CharOrder == <<"-">> \o DigitChars
CharRank(ch) == CHOOSE i \in 1..Len(CharOrder) : CharOrder[i] = ch
RECURSIVE localeCompare(_, _)
localeCompare(a, b) ==
    IF a = <<>> THEN (IF b = <<>> THEN 0 ELSE 0 - 1)
    ELSE IF b = <<>> THEN 1
    ELSE IF CharRank(Head(a)) < CharRank(Head(b)) THEN 0 - 1
    ELSE IF CharRank(Head(a)) > CharRank(Head(b)) THEN 1
    ELSE localeCompare(Tail(a), Tail(b))

\* a journal entry; kind and of (the invoice it was made of) are not fields
\* of FreeeJournalEntry: they name the push that made the entry
Entry(kind, inv, date, debitAccount, debitAmount, creditAccount, creditAmount, creditTax, text) ==
    [kind          |-> kind,
     of            |-> inv.id,
     date          |-> date,
     debitAccount  |-> debitAccount,
     debitSub      |-> "",
     debitDept     |-> "",
     debitAmount   |-> debitAmount,
     debitTax      |-> "out-of-scope",
     creditAccount |-> creditAccount,
     creditSub     |-> "",
     creditDept    |-> "",
     creditAmount  |-> creditAmount,
     creditTax     |-> creditTax,
     description   |-> inv.invoiceNumber \o <<text>>,
     tag           |-> inv.projectId]

\* a sales recognition that books no tax entry
SalesEntries_noTax(invoice) ==
    LET taxableAmount    == TaxableAmount(invoice.items)
        nonTaxableAmount == NonTaxableAmount(invoice.items)
        sales   == IF taxableAmount > 0
                   THEN <<Entry("taxable", invoice, formatDate(invoice.issueDate),
                                "AR", taxableAmount + invoice.taxAmount,
                                "Sales", taxableAmount, "taxable-10", " sales")>>
                   ELSE <<>>
        exempt  == IF nonTaxableAmount > 0
                   THEN <<Entry("nontaxable", invoice, formatDate(invoice.issueDate),
                                "AR", nonTaxableAmount,
                                "Sales", nonTaxableAmount, "exempt",
                                " sales (non-taxable)")>>
                   ELSE <<>>
    IN  IF invoice.status # "Draft" THEN sales \o exempt ELSE <<>>

\* the entries of `if (invoice.status !== Draft) { ... }`
SalesEntries(invoice) ==
    LET taxableAmount    == TaxableAmount(invoice.items)
        nonTaxableAmount == NonTaxableAmount(invoice.items)
        sales   == IF taxableAmount > 0
                   THEN <<Entry("taxable", invoice, formatDate(invoice.issueDate),
                                "AR", taxableAmount + invoice.taxAmount,
                                "Sales", taxableAmount, "taxable-10", " sales")>>
                   ELSE <<>>
        tax     == IF taxableAmount > 0 /\ invoice.taxAmount > 0
                   THEN <<Entry("tax", invoice, formatDate(invoice.issueDate),
                                "AR", 0,
                                "TaxPayable", invoice.taxAmount, "out-of-scope",
                                " tax")>>
                   ELSE <<>>
        exempt  == IF nonTaxableAmount > 0
                   THEN <<Entry("nontaxable", invoice, formatDate(invoice.issueDate),
                                "AR", nonTaxableAmount,
                                "Sales", nonTaxableAmount, "exempt",
                                " sales (non-taxable)")>>
                   ELSE <<>>
    IN  IF invoice.status # "Draft" THEN sales \o tax \o exempt ELSE <<>>

\* a payment entry that a Draft invoice does not get
PaymentEntries_notOfDraft(invoice) ==
    IF invoice.paidAmount > 0 /\ invoice.status # "Draft"
    THEN <<Entry("payment", invoice, formatDate(invoice.updatedAt),
                 "Bank", invoice.paidAmount,
                 "AR", invoice.paidAmount, "out-of-scope", " payment")>>
    ELSE <<>>

\* the entry of `if (invoice.paidAmount > 0) { ... }`
PaymentEntries(invoice) ==
    IF invoice.paidAmount > 0
    THEN <<Entry("payment", invoice, formatDate(invoice.updatedAt),
                 "Bank", invoice.paidAmount,
                 "AR", invoice.paidAmount, "out-of-scope", " payment")>>
    ELSE <<>>

\* FreeeExportService.invoiceToJournalEntries
invoiceToJournalEntries(invoice) ==
    SalesEntries(invoice) \o PaymentEntries(invoice)

\* the characters of a text of the source that holds no comma, quote or
\* newline: the text as one unit, the empty text as no character
Word(text) == IF text = "" THEN <<>> ELSE <<text>>

\* journalEntryToRow: the 13 cells of an entry, each the sequence of its
\* characters
journalEntryToRow(entry) ==
    <<entry.date, Word(entry.debitAccount), Word(entry.debitSub),
      Word(entry.debitDept), DecChars(entry.debitAmount), Word(entry.debitTax),
      Word(entry.creditAccount), Word(entry.creditSub), Word(entry.creditDept),
      DecChars(entry.creditAmount), Word(entry.creditTax), entry.description,
      entry.tag>>

\* FREEE_CSV_HEADERS
FREEE_CSV_HEADERS ==
    <<Word("date"), Word("debit account"), Word("debit sub-account"),
      Word("debit department"), Word("debit amount"), Word("debit tax"),
      Word("credit account"), Word("credit sub-account"),
      Word("credit department"), Word("credit amount"), Word("credit tax"),
      Word("description"), Word("tag")>>

\* the characters escapeCSV looks for
Comma == ","
Quote == "dq"
Newline == "nl"

\* value.replace(/"/g, '""')
RECURSIVE DoubleQuotes(_)
DoubleQuotes(value) ==
    IF value = <<>> THEN <<>>
    ELSE (IF Head(value) = Quote THEN <<Quote, Quote>> ELSE <<Head(value)>>)
         \o DoubleQuotes(Tail(value))

\* an escape that wraps a value without doubling its quotes
escapeCSV_noDoubling(value) ==
    IF \E i \in 1..Len(value) : value[i] \in {Comma, Quote, Newline}
    THEN <<Quote>> \o value \o <<Quote>>
    ELSE value

\* FreeeExportService.escapeCSV
escapeCSV(value) ==
    IF \E i \in 1..Len(value) : value[i] \in {Comma, Quote, Newline}
    THEN <<Quote>> \o DoubleQuotes(value) \o <<Quote>>
    ELSE value

\* Array.prototype.join
RECURSIVE Join(_, _)
Join(parts, sep) ==
    IF parts = <<>> THEN <<>>
    ELSE IF Len(parts) = 1 THEN parts[1]
    ELSE parts[1] \o <<sep>> \o Join(Tail(parts), sep)

\* rows.map(row => row.map(cell => escapeCSV(cell)).join(',')).join('\n')
CsvOf(rows) ==
    Join([r \in 1..Len(rows) |->
             Join([c \in 1..Len(rows[r]) |-> escapeCSV(rows[r][c])], Comma)],
         Newline)

\* allEntries.sort((a, b) => a.date.localeCompare(b.date)): a stable sort
RECURSIVE InsertEntry(_, _)
InsertEntry(sorted, e) ==
    IF sorted = <<>> THEN <<e>>
    ELSE IF localeCompare(Head(sorted).date, e.date) <= 0
         THEN <<Head(sorted)>> \o InsertEntry(Tail(sorted), e)
         ELSE <<e>> \o sorted
RECURSIVE SortEntries(_, _)
SortEntries(entries, sorted) ==
    IF entries = <<>> THEN sorted
    ELSE SortEntries(Tail(entries), InsertEntry(sorted, Head(entries)))

RECURSIVE EntriesOfAll(_)
EntriesOfAll(list) ==
    IF list = <<>> THEN <<>>
    ELSE invoiceToJournalEntries(Head(list)) \o EntriesOfAll(Tail(list))

\* the options of exportToCSV: a date is a sequence of length 0 or 1, the
\* flag is "true", "false" or "undefined"
NoExportOptions ==
    [startDate |-> <<>>, endDate |-> <<>>, includeUnpaid |-> "undefined"]

\* a filter that keeps an invoice issued on the end date out
FilterInvoices_endExclusive(list, options) ==
    LET includeUnpaid == options.includeUnpaid # "false"
        From(inv)  == options.startDate = <<>> \/ inv.issueDate >= options.startDate[1]
        Until(inv) == options.endDate = <<>> \/ inv.issueDate < options.endDate[1]
        Paid(inv)  == includeUnpaid \/ inv.status \in {"Paid", "Overpaid"}
    IN  SelectSeq(SelectSeq(SelectSeq(list, From), Until), Paid)

\* the three filters of exportToCSV; includeUnpaid ?? true
FilterInvoices(list, options) ==
    LET includeUnpaid == options.includeUnpaid # "false"
        From(inv)  == options.startDate = <<>> \/ inv.issueDate >= options.startDate[1]
        Until(inv) == options.endDate = <<>> \/ inv.issueDate <= options.endDate[1]
        Paid(inv)  == includeUnpaid \/ inv.status \in {"Paid", "Overpaid"}
    IN  SelectSeq(SelectSeq(SelectSeq(list, From), Until), Paid)

\* a sort that puts an entry before the entries of its date
SortedEntries_unstable(entries) ==
    LET RECURSIVE Ins(_, _)
        Ins(sorted, e) ==
            IF sorted = <<>> THEN <<e>>
            ELSE IF localeCompare(Head(sorted).date, e.date) < 0
                 THEN <<Head(sorted)>> \o Ins(Tail(sorted), e)
                 ELSE <<e>> \o sorted
        RECURSIVE Srt(_, _)
        Srt(es, sorted) ==
            IF es = <<>> THEN sorted ELSE Srt(Tail(es), Ins(sorted, Head(es)))
    IN  Srt(entries, <<>>)

SortedEntries(entries) == SortEntries(entries, <<>>)

\* what exportToCSV returned: the entries in the order of the rows, and the
\* rows after the header
Exported(options, entries) ==
    [op |-> "exportToCSV", options |-> options, ok |-> TRUE,
     entries |-> entries,
     rows |-> [i \in 1..Len(entries) |-> journalEntryToRow(entries[i])],
     csv |-> CsvOf(<<FREEE_CSV_HEADERS>>
                   \o [i \in 1..Len(entries) |-> journalEntryToRow(entries[i])])]
NoExport ==
    [op |-> "none", options |-> NoExportOptions, ok |-> TRUE,
     entries |-> <<>>, rows |-> <<>>, csv |-> <<>>]

\* FreeeExportService.exportToCSV(invoices, options)
Export_toCSV(options) ==
    /\ exportOut' = Exported(options,
                       SortedEntries(EntriesOfAll(FilterInvoices(exportIn, options))))
    /\ UNCHANGED exportIn

\* FreeeExportService.exportMonthly(invoices, 2024, month)
Export_monthly(month) ==
    LET options == [startDate |-> <<DateAt(month, 1, 0)>>,
                    endDate |-> <<DateAt(month, MonthLengths[month], 2)>>,
                    includeUnpaid |-> "undefined"]
    IN  /\ exportOut' = [Exported(options,
                            SortedEntries(EntriesOfAll(FilterInvoices(exportIn, options))))
                         EXCEPT !.op = "exportMonthly"]
        /\ UNCHANGED exportIn

-----------------------------------------------------------------------------
(* The invoice lists and options the export is checked on.                  *)

MaxExportInvoices == 2     \* invoices in the list a caller passes

Jan30 == DateAt(1, 30, 0)
Jan31Last == DateAt(1, 31, 2)       \* 2024-01-31 23:59:59.000
Jan31Late == DateAt(1, 31, 3)       \* 2024-01-31 23:59:59.999
Feb01 == DateAt(2, 1, 0)
Feb02 == DateAt(2, 2, 1)

TaxedItems == <<[quantity |-> 1, unitPrice |-> 15, taxable |-> TRUE]>>
UntaxedItems == <<[quantity |-> 2, unitPrice |-> 15, taxable |-> FALSE]>>
MixedItems == TaxedItems \o UntaxedItems
SmallItems == <<[quantity |-> 1, unitPrice |-> 5, taxable |-> TRUE]>>
\* a taxable item of 15 and a non-taxable discount line of -5
DiscountItems ==
    TaxedItems \o <<[quantity |-> 1, unitPrice |-> 0 - 5, taxable |-> FALSE]>>

\* an invoice as InvoiceService prices it, in a status, paid and dated; its
\* number and project id are sequences of characters
ExportInvoice(shape, n) ==
    LET priced == NewInvoice([items |-> shape[2]])
    IN  [id            |-> n,
         invoiceNumber |-> Word("INV-" \o ToString(n)),
         projectId     |-> Word("project-" \o ToString(n)),
         status        |-> shape[1],
         items         |-> priced.items,
         subtotal      |-> priced.subtotal,
         taxRate       |-> priced.taxRate,
         taxAmount     |-> priced.taxAmount,
         totalAmount   |-> priced.totalAmount,
         paidAmount    |-> shape[3],
         issueDate     |-> shape[4],
         updatedAt     |-> shape[5]]

\* status, items, paidAmount, issueDate, updatedAt
ExportShapes ==
    {<<"Draft", MixedItems, 0, Jan30, Jan30>>,
     <<"Draft", TaxedItems, 16, Jan31Late, Feb02>>,
     <<"Issued", TaxedItems, 0, Jan30, Jan30>>,
     <<"Issued", UntaxedItems, 0, Jan31Late, Jan31Late>>,
     <<"Issued", MixedItems, 0, Feb01, Feb01>>,
     <<"Issued", SmallItems, 0, Jan30, Jan30>>,
     <<"Issued", DiscountItems, 0, Jan30, Jan30>>,
     <<"Issued", <<>>, 0, Jan31Late, Jan31Late>>,
     <<"Issued", TaxedItems, 0, Jan31Last, Jan31Last>>,
     <<"Paid", TaxedItems, 16, Jan30, Jan30>>,
     <<"Paid", TaxedItems, 16, Jan31Late, Feb02>>,
     <<"Overpaid", SmallItems, 16, Feb01, Feb02>>,
     <<"PartiallyPaid", MixedItems, 16, Jan30, Feb01>>}

ExportLists ==
    UNION {{[i \in 1..n |-> ExportInvoice(s[i], i)] : s \in [1..n -> ExportShapes]} :
              n \in 0..MaxExportInvoices}

ExportDates == {Jan30, Jan31Last, Jan31Late, Feb01}
ExportOptions ==
    [startDate : {<<>>} \cup {<<d>> : d \in ExportDates},
     endDate : {<<>>} \cup {<<d>> : d \in ExportDates},
     includeUnpaid : {"undefined", "true", "false"}]
ExportMonths == {1, 2}

ExportInit ==
    /\ exportIn \in ExportLists
    /\ exportOut = NoExport

-----------------------------------------------------------------------------
(* Claims about the export.                                                 *)

ExportMade == exportOut.op # "none"

\* the claims' reading of the options: the invoices an export is to cover
Selected(inv, options) ==
    /\ options.startDate # <<>> => options.startDate[1] <= inv.issueDate
    /\ options.endDate # <<>> => inv.issueDate <= options.endDate[1]
    /\ options.includeUnpaid = "false" => inv.status \in {"Paid", "Overpaid"}

\* the exported entries made of invoice n, in the order of the rows
EntriesOf(n) == LET Mine(e) == e.of = n IN SelectSeq(exportOut.entries, Mine)
OfKind(es, kind) == LET Is(e) == e.kind = kind IN SelectSeq(es, Is)
SalesKinds == {"taxable", "tax", "nontaxable"}

\* C12: a Draft invoice has no sales-recognition entry; an exported invoice
\* of any status has one payment entry when paidAmount > 0 and none otherwise;
\* the payment entry debits Bank and credits Accounts-Receivable with
\* paidAmount, and is dated at updatedAt.  So a Draft invoice has no row when
\* nothing is paid and the payment row alone when something is.
C12_DraftAndPayment ==
    ExportMade =>
        \A n \in 1..Len(exportIn) :
            Selected(exportIn[n], exportOut.options) =>
                LET inv == exportIn[n]
                    es  == EntriesOf(n)
                    pay == OfKind(es, "payment")
                IN  /\ inv.status = "Draft" =>
                          \A i \in 1..Len(es) : es[i].kind \notin SalesKinds
                    /\ Len(pay) = (IF inv.paidAmount > 0 THEN 1 ELSE 0)
                    /\ \A i \in 1..Len(pay) :
                          /\ pay[i].debitAccount = "Bank"
                          /\ pay[i].creditAccount = "AR"
                          /\ pay[i].debitAmount = inv.paidAmount
                          /\ pay[i].creditAmount = inv.paidAmount
                          /\ pay[i].date = formatDate(inv.updatedAt)
                    /\ inv.status = "Draft" =>
                          Len(es) = (IF inv.paidAmount > 0 THEN 1 ELSE 0)
                    /\ Len(exportOut.rows) = Len(exportOut.entries)

\* a Draft invoice that is paid, exported as its payment row alone, dated
\* two days after the issue
C12_Witness ==
    /\ ExportMade
    /\ \E n \in 1..Len(exportIn) :
          /\ exportIn[n].status = "Draft" /\ exportIn[n].paidAmount > 0
          /\ Len(EntriesOf(n)) = 1
          /\ EntriesOf(n)[1].kind = "payment"
          /\ EntriesOf(n)[1].date # formatDate(exportIn[n].issueDate)

\* what C13 says of the entries of an exported invoice that is not a Draft;
\* always tells whether the taxable entry is there whatever the amount
SalesRule(always) ==
    ExportMade =>
        \A n \in 1..Len(exportIn) :
            (Selected(exportIn[n], exportOut.options) /\ exportIn[n].status # "Draft") =>
                LET inv     == exportIn[n]
                    es      == EntriesOf(n)
                    taxable == TaxableAmount(inv.items)
                    exempt  == NonTaxableAmount(inv.items)
                    sales   == OfKind(es, "taxable")
                    tax     == OfKind(es, "tax")
                    other   == OfKind(es, "nontaxable")
                IN  /\ Len(sales) = (IF always \/ taxable > 0 THEN 1 ELSE 0)
                    /\ \A i \in 1..Len(sales) :
                          /\ sales[i].debitAccount = "AR"
                          /\ sales[i].debitAmount = taxable + inv.taxAmount
                          /\ sales[i].creditAccount = "Sales"
                          /\ sales[i].creditAmount = taxable
                          /\ sales[i].creditTax = "taxable-10"
                    /\ Len(tax) = (IF inv.taxAmount > 0 THEN 1 ELSE 0)
                    /\ \A i \in 1..Len(tax) :
                          /\ tax[i].creditAccount = "TaxPayable"
                          /\ tax[i].creditAmount = inv.taxAmount
                    /\ Len(other) = (IF exempt > 0 THEN 1 ELSE 0)
                    /\ \A i \in 1..Len(other) :
                          /\ other[i].debitAmount = exempt
                          /\ other[i].creditAmount = exempt
                          /\ other[i].creditTax = "exempt"
                    /\ \A i \in 1..Len(es) :
                          /\ \E text \in {" sales", " tax", " sales (non-taxable)",
                                          " payment"} :
                                es[i].description = inv.invoiceNumber \o <<text>>
                          /\ es[i].tag = inv.projectId

\* C13 as claimed: every exported invoice that is not a Draft has the
\* sales-recognition entry of its taxable portion.
C13_AsClaimed == SalesRule(TRUE)

\* C13: an exported invoice that is not a Draft has the sales-recognition
\* entry of its taxable portion (debit Accounts-Receivable taxable + tax,
\* credit Sales taxable) exactly when the taxable amount is above 0, a
\* Tax-Payable entry of taxAmount exactly when taxAmount > 0, and an exempt
\* entry (debit = credit = non-taxable amount) exactly when the non-taxable
\* amount is above 0; every entry has the invoice number in its description
\* and the project identifier as tag.
C13_SalesEntries == SalesRule(FALSE)

\* an issued invoice of a taxed and an untaxed item, exported as three
\* entries: 15 + 1, tax 1, and 30
C13_Witness ==
    /\ ExportMade
    /\ \E n \in 1..Len(exportIn) :
          /\ exportIn[n].status = "Issued"
          /\ Len(EntriesOf(n)) = 3
          /\ EntriesOf(n)[1].debitAmount = 16 /\ EntriesOf(n)[1].creditAmount = 15
          /\ EntriesOf(n)[2].creditAmount = 1
          /\ EntriesOf(n)[3].creditAmount = 30

SeqToSet(s) == {s[i] : i \in 1..Len(s)}

\* C14: the exported entries are those of the invoices whose issueDate is in
\* [startDate, endDate] (each bound when given, both inclusive) and, when
\* includeUnpaid is false, whose status is Paid or Overpaid; an absent
\* includeUnpaid is true; the invoice list is left as it was.
C14_Filter ==
    /\ [](ExportMade =>
            /\ \A n \in 1..Len(exportIn) :
                  /\ SeqToSet(EntriesOf(n)) =
                        (IF Selected(exportIn[n], exportOut.options)
                         THEN SeqToSet(invoiceToJournalEntries(exportIn[n]))
                         ELSE {})
                  /\ Len(EntriesOf(n)) = Cardinality(SeqToSet(EntriesOf(n)))
            /\ \A i \in 1..Len(exportOut.entries) :
                  exportOut.entries[i].of \in 1..Len(exportIn))
    /\ [][exportIn' = exportIn]_allVars

\* an export of paid invoices between two dates that took the invoice issued
\* at the end date and left out one issued later and one not paid
C14_Witness ==
    /\ ExportMade /\ exportOut.op = "exportToCSV"
    /\ exportOut.options.startDate # <<>> /\ exportOut.options.endDate # <<>>
    /\ exportOut.options.includeUnpaid = "false"
    /\ Len(exportIn) = 2
    /\ exportIn[1].issueDate = exportOut.options.endDate[1]
    /\ EntriesOf(1) # <<>>
    /\ exportIn[2].status = "Issued" /\ EntriesOf(2) = <<>>

\* the day an entry is dated at, and the place of its push
DayOfEntry(e) ==
    (IF e.kind = "payment" THEN exportIn[e.of].updatedAt
     ELSE exportIn[e.of].issueDate) \div TicksPerDay
KindOrder == <<"taxable", "tax", "nontaxable", "payment">>
KindRank(kind) == CHOOSE i \in 1..Len(KindOrder) : KindOrder[i] = kind
PushedBefore(a, b) ==
    a.of < b.of \/ (a.of = b.of /\ KindRank(a.kind) < KindRank(b.kind))

\* C16: the rows after the header are in ascending order of transaction
\* date, and entries of one date keep the order of their invoices in the
\* list and, within an invoice, the order taxable sales, tax, non-taxable
\* sales, payment.
C16_SortedStable ==
    ExportMade =>
        \A i, j \in 1..Len(exportOut.entries) :
            i < j =>
                LET a == exportOut.entries[i]
                    b == exportOut.entries[j]
                IN  /\ DayOfEntry(a) <= DayOfEntry(b)
                    /\ DayOfEntry(a) = DayOfEntry(b) => PushedBefore(a, b)
                    /\ exportOut.rows[i][1] = a.date

\* the second invoice's sales entry was moved before the first invoice's
\* payment entry, and two entries of one date and two invoices kept their order
C16_Witness ==
    /\ ExportMade
    /\ \E i, j \in 1..Len(exportOut.entries) :
          /\ i < j
          /\ exportOut.entries[i].of = 2 /\ exportOut.entries[j].of = 1
    /\ \E i, j \in 1..Len(exportOut.entries) :
          /\ i < j
          /\ exportOut.entries[i].of = 1 /\ exportOut.entries[j].of = 2
          /\ exportOut.entries[i].date = exportOut.entries[j].date

-----------------------------------------------------------------------------
(* The CSV text: invoice numbers and project ids of any characters.         *)

MaxTextLen == 2        \* characters in an invoice number or project id

CsvAlphabet == {"a", Comma, Quote, Newline}
CsvTexts == SeqsUpTo(CsvAlphabet, MaxTextLen)

\* a paid invoice of a taxed and an untaxed item: four entries
CsvInvoice(number, project) ==
    [ExportInvoice(<<"Paid", MixedItems, 16, Jan30, Feb02>>, 1)
        EXCEPT !.invoiceNumber = number, !.projectId = project]

CsvInit ==
    /\ exportIn \in {<<CsvInvoice(n, p)>> : n \in CsvTexts, p \in CsvTexts}
    /\ exportOut = NoExport

\* A reader of CSV text.  A field that begins with a quote runs to the next
\* quote that is not doubled, and a doubled quote in it is one quote; outside
\* quotes a comma ends the field and a newline ends the record.
Least(S) == CHOOSE x \in S : \A y \in S : x <= y
QuotesIn(chars, from, to) == Cardinality({k \in from..to : chars[k] = Quote})
\* the quote that closes the field opened at chars[1]: the first quote that
\* an even number of quotes precedes and no quote follows; Len + 1 if none
ClosingQuote(chars) ==
    LET closing == {j \in 2..Len(chars) :
                       /\ chars[j] = Quote
                       /\ QuotesIn(chars, 2, j - 1) % 2 = 0
                       /\ j = Len(chars) \/ chars[j + 1] # Quote}
    IN  IF closing = {} THEN Len(chars) + 1 ELSE Least(closing)
\* the first comma or newline from `from` on; Len + 1 if none
FieldEnd(chars, from) ==
    LET ends == {j \in from..Len(chars) : chars[j] \in {Comma, Newline}}
    IN  IF ends = {} THEN Len(chars) + 1 ELSE Least(ends)
RECURSIVE Undouble(_)
Undouble(content) ==
    IF content = <<>> THEN <<>>
    ELSE IF Head(content) = Quote /\ Len(content) >= 2 /\ content[2] = Quote
         THEN <<Quote>> \o Undouble(Tail(Tail(content)))
         ELSE <<Head(content)>> \o Undouble(Tail(content))
RECURSIVE ReadCsv(_, _, _)
ReadCsv(chars, record, records) ==
    LET quoted == chars # <<>> /\ chars[1] = Quote
        close  == IF quoted THEN ClosingQuote(chars) ELSE 0
        end    == FieldEnd(chars, close + 1)
        field  == IF quoted
                  THEN Undouble(SubSeq(chars, 2, close - 1))
                       \o SubSeq(chars, close + 1, end - 1)
                  ELSE SubSeq(chars, 1, end - 1)
        rest   == SubSeq(chars, end + 1, Len(chars))
    IN  IF end > Len(chars) THEN Append(records, Append(record, field))
        ELSE IF chars[end] = Comma
             THEN ReadCsv(rest, Append(record, field), records)
             ELSE ReadCsv(rest, <<>>, Append(records, Append(record, field)))
ParseCsv(chars) == ReadCsv(chars, <<>>, <<>>)

\* C15: the CSV text, read back by the quoting rules, is the header of 13
\* columns followed by one record of 13 fields for each journal entry, and
\* the fields are the entry's values as they were before escaping, whatever
\* characters the invoice number and the project id hold.
C15_RoundTrip ==
    ExportMade =>
        LET records == ParseCsv(exportOut.csv)
            entries == exportOut.entries
        IN  /\ Len(records) = 1 + Len(entries)
            /\ records[1] = FREEE_CSV_HEADERS
            /\ \A r \in 1..Len(records) : Len(records[r]) = 13
            /\ \A i \in 1..Len(entries) :
                  LET fields == records[i + 1]
                      inv    == exportIn[entries[i].of]
                  IN  /\ fields[1] = entries[i].date
                      /\ fields[2] = Word(entries[i].debitAccount)
                      /\ fields[3] = <<>> /\ fields[4] = <<>>
                      /\ fields[5] = DecChars(entries[i].debitAmount)
                      /\ fields[6] = Word(entries[i].debitTax)
                      /\ fields[7] = Word(entries[i].creditAccount)
                      /\ fields[8] = <<>> /\ fields[9] = <<>>
                      /\ fields[10] = DecChars(entries[i].creditAmount)
                      /\ fields[11] = Word(entries[i].creditTax)
                      /\ fields[12] = entries[i].description
                      /\ SubSeq(fields[12], 1, Len(inv.invoiceNumber))
                            = inv.invoiceNumber
                      /\ fields[13] = inv.projectId

\* an export of an invoice whose number is a quote and a newline and whose
\* project id has a comma
C15_Witness ==
    /\ ExportMade
    /\ exportIn[1].invoiceNumber = <<Quote, Newline>>
    /\ Comma \in SeqToSet(exportIn[1].projectId)
    /\ Len(exportOut.entries) = 4
    /\ Len(ParseCsv(exportOut.csv)) = 5

-----------------------------------------------------------------------------
(* How an operation on the record store completes: by returning an          *)
(* ApiResponse or by throwing.                                              *)

\* what the store can answer to the list request: the records; a transport
\* error; an error code; code 0 with no data; code 0 with data that has no
\* items
StoreOutcomes == {"OK", "REQUEST_FAILED", "API_ERROR", "EMPTY_PAYLOAD", "NO_ITEMS"}

\* an ApiResponse: code is "" when there is no error object
Response(success, code, hasData, hasItems) ==
    [success |-> success, code |-> code, hasData |-> hasData,
     hasItems |-> hasItems]

\* LarkBaseClient.request: every exception is caught; data.code !== 0 is an
\* error; otherwise success with data.data, whatever it is
request(outcome) ==
    IF outcome \in {"REQUEST_FAILED", "API_ERROR"}
    THEN Response(FALSE, outcome, FALSE, FALSE)
    ELSE Response(TRUE, "", outcome # "EMPTY_PAYLOAD", outcome = "OK")

\* LarkBaseClient.listRecords: !response.success || !response.data gives
\* {success: false, error: response.error}
listRecords(outcome) ==
    LET response == request(outcome)
    IN  IF ~response.success \/ ~response.hasData
        THEN Response(FALSE, response.code, FALSE, FALSE)
        ELSE response

\* a completion: returned (with success and error code) or thrown
Completed(op, outcome, how, success, code) ==
    [op |-> op, outcome |-> outcome, how |-> how, success |-> success,
     code |-> code]
NoCompletion == Completed("none", "OK", "returned", TRUE, "")

\* ProjectItemService.list: response.data.items.map(...) on the items of
\* the page
list(outcome) ==
    LET response == listRecords(outcome)
    IN  IF ~response.success \/ ~response.hasData
        THEN Completed("list", outcome, "returned", FALSE, response.code)
        ELSE IF ~response.hasItems
        THEN Completed("list", outcome, "thrown", FALSE, "TypeError")
        ELSE Completed("list", outcome, "returned", TRUE, "")

\* the operations that begin with `await this.list(...)` or with an
\* operation that does, and hand on its failure
ListingOps ==
    {"getInvoiceGroups", "getSummaryByClient", "getInvoicePreviews",
     "generateInvoice", "issueInvoice"}

Boundary_listRecords(outcome) ==
    LET r == listRecords(outcome)
    IN  /\ completion' = Completed("listRecords", outcome, "returned",
                                   r.success, r.code)
        /\ UNCHANGED <<table, now, call>>

Boundary_list(outcome) ==
    /\ completion' = list(outcome)
    /\ UNCHANGED <<table, now, call>>

\* over a first page that was read, generateInvoice and issueInvoice can
\* still fail with NOT_FOUND
Boundary_listing(op, clientName, invoiceMonth, outcome) ==
    LET first == list(outcome)
        found == generateInvoice(table, clientName, invoiceMonth, now, "OK")
    IN  /\ op \in ListingOps
        /\ completion' =
              IF first.how = "returned" /\ first.success
                 /\ op \in {"generateInvoice", "issueInvoice"} /\ ~found.ok
              THEN Completed(op, outcome, "returned", FALSE, found.code)
              ELSE [first EXCEPT !.op = op]
        /\ UNCHANGED <<table, now, call>>

\* C17 as claimed: every operation completes by returning, and a returned
\* failure carries an error code.
C17_AsClaimed ==
    completion.op # "none" =>
        /\ completion.how = "returned"
        /\ ~completion.success => completion.code # ""

-----------------------------------------------------------------------------
(* AuthService: users, emailIndex and refreshTokens; register and login are *)
(* async and are suspended once, at the bcrypt await.                       *)

MIN_PASSWORD_LENGTH == 8

UserRoles == {"admin", "user", "viewer"}

\* String.prototype.toLowerCase, on an address held as its characters
LowerChar(c) == IF c = "A" THEN "a" ELSE IF c = "B" THEN "b" ELSE c
toLowerCase(email) == [i \in DOMAIN email |-> LowerChar(email[i])]

\* bcrypt.hash and bcrypt.compare
Hash(password) == <<"bcrypt", password>>
Compare(password, passwordHash) == passwordHash = Hash(password)

\* a User (name and the two timestamps play no part)
User(id, email, passwordHash, role) ==
    [id |-> id, email |-> email, passwordHash |-> passwordHash, role |-> role]

\* jwt.sign: the token is a function of the payload, the secret and the
\* second of issue (iat); the expiry is iat plus a fixed span
sign(user, type, secret, at) ==
    [userId |-> user.id, email |-> user.email, role |-> user.role,
     type |-> type, secret |-> secret, iat |-> at]

\* generateTokens: signs the pair and stores the refresh token
generateTokens(user, at) ==
    [accessToken  |-> sign(user, "access", "jwtSecret", at),
     refreshToken |-> sign(user, "refresh", "jwtRefreshSecret", at)]

\* jwt.verify against the refresh secret (no token outlives MaxClock)
Verifies(token) == token.secret = "jwtRefreshSecret"

\* Map.set and Map.delete
MapSet(map, key, value) ==
    [k \in DOMAIN map \cup {key} |-> IF k = key THEN value ELSE map[k]]
MapDelete(map, key) == [k \in DOMAIN map \ {key} |-> map[k]]

\* a call suspended at its await, or no call
AuthCall(op, email, password, role, user) ==
    [op |-> op, email |-> email, password |-> password, role |-> role,
     user |-> user]
NoAuthCall == AuthCall("idle", <<>>, "", "", <<>>)

\* what the last operation returned; requester and target are the
\* arguments of changeUserRole, deleteUser and getUser, and spent tells
\* whether the token given to refreshAccessToken had been logged out or
\* used before the call
AuthResult(op, code, requester, target, spent) ==
    [op |-> op, code |-> code, requester |-> requester, target |-> target,
     spent |-> spent]
NoAuthResult == AuthResult("none", "OK", "", "", FALSE)

\* generateId: an id that was never used
UserIds == {"u1", "u2", "u3"}
FreshIds == UserIds \ authHist.created
generateId == CHOOSE id \in FreshIds : TRUE

authStore == <<users, emailIndex>>

\* register, up to the await of bcrypt.hash
Register_check(p, email, password, role) ==
    /\ authCalls[p] = NoAuthCall
    /\ IF toLowerCase(email) \in DOMAIN emailIndex
       THEN /\ authOut' = AuthResult("register", "EMAIL_EXISTS", "", "", FALSE)
            /\ UNCHANGED authCalls
       ELSE IF Len(password) < MIN_PASSWORD_LENGTH
       THEN /\ authOut' = AuthResult("register", "WEAK_PASSWORD", "", "", FALSE)
            /\ UNCHANGED authCalls
       ELSE /\ authCalls' = [authCalls EXCEPT
                               ![p] = AuthCall("register", email, password, role, <<>>)]
            /\ UNCHANGED authOut
    /\ UNCHANGED <<users, emailIndex, refreshTokens, clock, authHist>>

\* register, once the hash is there: the user is stored and indexed
Register_complete(p) ==
    /\ authCalls[p].op = "register"
    /\ FreshIds # {}
    /\ LET call1 == authCalls[p]
           userId == generateId
           user == User(userId, toLowerCase(call1.email), Hash(call1.password),
                        call1.role)
       IN  /\ users' = MapSet(users, userId, user)
           /\ emailIndex' = MapSet(emailIndex, toLowerCase(call1.email), userId)
           /\ authHist' = [authHist EXCEPT !.created = @ \cup {userId}]
           /\ authOut' = AuthResult("register", "OK", "", "", FALSE)
    /\ authCalls' = [authCalls EXCEPT ![p] = NoAuthCall]
    /\ UNCHANGED <<refreshTokens, clock>>

\* login, up to the await of bcrypt.compare
Login_lookup(p, email, password) ==
    /\ authCalls[p] = NoAuthCall
    /\ IF toLowerCase(email) \notin DOMAIN emailIndex
       THEN /\ authOut' = AuthResult("login", "INVALID_CREDENTIALS", "", "", FALSE)
            /\ UNCHANGED authCalls
       ELSE IF emailIndex[toLowerCase(email)] \notin DOMAIN users
       THEN /\ authOut' = AuthResult("login", "USER_NOT_FOUND", "", "", FALSE)
            /\ UNCHANGED authCalls
       ELSE /\ authCalls' = [authCalls EXCEPT
                               ![p] = AuthCall("login", <<>>, password, "",
                                        <<users[emailIndex[toLowerCase(email)]]>>)]
            /\ UNCHANGED authOut
    /\ UNCHANGED <<users, emailIndex, refreshTokens, clock, authHist>>

\* login, once the comparison is there: the tokens are signed for the user
\* object found before the await
Login_complete(p) ==
    /\ authCalls[p].op = "login"
    /\ LET call1 == authCalls[p]
           user == call1.user[1]
           tokens == generateTokens(user, clock)
       IN  IF ~Compare(call1.password, user.passwordHash)
           THEN /\ authOut' = AuthResult("login", "INVALID_CREDENTIALS", "", "",
                                         FALSE)
                /\ UNCHANGED <<refreshTokens, authHist>>
           ELSE /\ refreshTokens' = refreshTokens \cup {tokens.refreshToken}
                /\ authHist' = [authHist EXCEPT !.signed = @ + 1]
                /\ authOut' = AuthResult("login", "OK", "", "", FALSE)
    /\ authCalls' = [authCalls EXCEPT ![p] = NoAuthCall]
    /\ UNCHANGED <<users, emailIndex, clock>>

logout(refreshToken) ==
    /\ refreshTokens' = refreshTokens \ {refreshToken}
    /\ authHist' = [authHist EXCEPT !.spent = @ \cup {refreshToken}]
    /\ authOut' = AuthResult("logout", "OK", "", "", FALSE)
    /\ UNCHANGED <<users, emailIndex, authCalls, clock>>

refreshAccessToken(refreshToken) ==
    LET spent == refreshToken \in authHist.spent
        Result(code) ==
            AuthResult("refreshAccessToken", code, "", "", spent)
    IN  /\ IF refreshToken \notin refreshTokens
           THEN /\ authOut' = Result("INVALID_REFRESH_TOKEN")
                /\ UNCHANGED <<refreshTokens, authHist>>
           ELSE IF ~Verifies(refreshToken) \/ refreshToken.type # "refresh"
           THEN /\ refreshTokens' = refreshTokens \ {refreshToken}
                /\ authOut' = Result("INVALID_REFRESH_TOKEN")
                /\ UNCHANGED authHist
           ELSE IF refreshToken.userId \notin DOMAIN users
           THEN /\ refreshTokens' = refreshTokens \ {refreshToken}
                /\ authOut' = Result("USER_NOT_FOUND")
                /\ UNCHANGED authHist
           ELSE LET tokens == generateTokens(users[refreshToken.userId], clock)
                IN  /\ refreshTokens' =
                          (refreshTokens \ {refreshToken}) \cup {tokens.refreshToken}
                    /\ authHist' = [authHist EXCEPT
                                      !.signed = @ + 1,
                                      !.spent = @ \cup {refreshToken}]
                    /\ authOut' = Result("OK")
        /\ UNCHANGED <<users, emailIndex, authCalls, clock>>

getUser(userId) ==
    /\ authOut' = AuthResult("getUser",
                    IF userId \in DOMAIN users THEN "OK" ELSE "USER_NOT_FOUND",
                    "", userId, FALSE)
    /\ UNCHANGED <<users, emailIndex, refreshTokens, authCalls, clock, authHist>>

\* a suspended login holds the user object itself, so it sees a role that
\* is changed meanwhile
Aliased(calls, user) ==
    [p \in DOMAIN calls |->
        IF calls[p].op = "login" /\ calls[p].user[1].id = user.id
        THEN [calls[p] EXCEPT !.user = <<user>>]
        ELSE calls[p]]

changeUserRole_anyRequester(requesterId, targetUserId, newRole) ==
    LET Result(code) ==
            AuthResult("changeUserRole", code, requesterId, targetUserId, FALSE)
    IN  /\ IF targetUserId \notin DOMAIN users
           THEN /\ authOut' = Result("USER_NOT_FOUND")
                /\ UNCHANGED <<users, authCalls>>
           ELSE /\ users' = [users EXCEPT ![targetUserId].role = newRole]
                /\ authCalls' = Aliased(authCalls, users'[targetUserId])
                /\ authOut' = Result("OK")
        /\ UNCHANGED <<emailIndex, refreshTokens, clock, authHist>>

changeUserRole(requesterId, targetUserId, newRole) ==
    LET Result(code) ==
            AuthResult("changeUserRole", code, requesterId, targetUserId, FALSE)
    IN  /\ IF requesterId \notin DOMAIN users
              \/ users[requesterId].role # "admin"
           THEN /\ authOut' = Result("UNAUTHORIZED")
                /\ UNCHANGED <<users, authCalls>>
           ELSE IF targetUserId \notin DOMAIN users
           THEN /\ authOut' = Result("USER_NOT_FOUND")
                /\ UNCHANGED <<users, authCalls>>
           ELSE /\ users' = [users EXCEPT ![targetUserId].role = newRole]
                /\ authCalls' = Aliased(authCalls, users'[targetUserId])
                /\ authOut' = Result("OK")
        /\ UNCHANGED <<emailIndex, refreshTokens, clock, authHist>>

deleteUser(requesterId, targetUserId) ==
    LET Result(code) ==
            AuthResult("deleteUser", code, requesterId, targetUserId, FALSE)
    IN  /\ IF requesterId \notin DOMAIN users
              \/ users[requesterId].role # "admin"
           THEN /\ authOut' = Result("UNAUTHORIZED")
                /\ UNCHANGED <<users, emailIndex, authHist>>
           ELSE IF targetUserId \notin DOMAIN users
           THEN /\ authOut' = Result("USER_NOT_FOUND")
                /\ UNCHANGED <<users, emailIndex, authHist>>
           ELSE IF requesterId = targetUserId
           THEN /\ authOut' = Result("CANNOT_DELETE_SELF")
                /\ UNCHANGED <<users, emailIndex, authHist>>
           ELSE /\ users' = MapDelete(users, targetUserId)
                /\ emailIndex' = MapDelete(emailIndex, users[targetUserId].email)
                /\ authHist' = [authHist EXCEPT !.deleted = @ \cup {targetUserId}]
                /\ authOut' = Result("OK")
        /\ UNCHANGED <<refreshTokens, authCalls, clock>>

\* a second passes, up to MaxClock
MaxClock == 1
Auth_tick ==
    /\ clock < MaxClock
    /\ clock' = clock + 1
    /\ UNCHANGED <<users, emailIndex, refreshTokens, authCalls, authHist, authOut>>

(* Inputs of AuthService.                                                   *)

\* the callers of the async operations
AuthCallers == {"p1", "p2"}

\* addresses, one of them in both cases
Emails == {<<"a">>, <<"A">>, <<"b">>}

\* one password of 11 characters and one of 5
Passwords == {"password123", "short"}

\* the roles users are registered with
RegisterRoles == {"admin", "user"}

\* the roles changeUserRole is asked for
NewRoles == {"admin", "user"}

\* a token signed by someone else
ForeignTokens ==
    {sign(User("u1", <<"a">>, Hash("password123"), "admin"), "refresh",
          "otherSecret", 0)}

\* the refresh tokens a caller can present: the stored ones, the ones
\* logged out or used, and the foreign one
PresentableTokens == refreshTokens \cup authHist.spent \cup ForeignTokens

\* the token pairs signed in one behaviour
MaxSigned == 3

\* the logins in one behaviour of the operations on the users
MaxLogins == 1

\* the one caller of login
LoginCallers == {"p1"}

\* login calls in their await
LoggingIn == {p \in AuthCallers : authCalls[p].op = "login"}

\* register calls in their await
Registering == {p \in AuthCallers : authCalls[p].op = "register"}

\* a constructed AuthService
AuthInit ==
    /\ users = <<>>
    /\ emailIndex = <<>>
    /\ refreshTokens = {}
    /\ authCalls = [p \in AuthCallers |-> NoAuthCall]
    /\ clock = 0
    /\ authHist = [created |-> {}, deleted |-> {}, spent |-> {}, signed |-> 0]
    /\ authOut = NoAuthResult

\* an AuthService after register(a, admin) and register(b, user)
TokensInit ==
    /\ users = MapSet(MapSet(<<>>, "u1",
                    User("u1", <<"a">>, Hash("password123"), "admin")),
                  "u2", User("u2", <<"b">>, Hash("password123"), "user"))
    /\ emailIndex = MapSet(MapSet(<<>>, <<"a">>, "u1"), <<"b">>, "u2")
    /\ refreshTokens = {}
    /\ authCalls = [p \in AuthCallers |-> NoAuthCall]
    /\ clock = 0
    /\ authHist = [created |-> {"u1", "u2"}, deleted |-> {}, spent |-> {},
                   signed |-> 0]
    /\ authOut = NoAuthResult

-----------------------------------------------------------------------------
(* Claims about AuthService.                                                *)

\* C18 as claimed: at most one user exists per lower-cased e-mail and
\* emailIndex maps that e-mail to that user's id.
C18_AsClaimed ==
    /\ \A a, b \in DOMAIN users : users[a].email = users[b].email => a = b
    /\ \A a \in DOMAIN users :
          /\ users[a].email \in DOMAIN emailIndex
          /\ emailIndex[users[a].email] = a

\* C19 as claimed: a refresh token that was logged out, or used in one
\* successful refreshAccessToken, is refused with INVALID_REFRESH_TOKEN ever
\* after.
C19_AsClaimed ==
    (authOut.op = "refreshAccessToken" /\ authOut.spent)
        => authOut.code = "INVALID_REFRESH_TOKEN"

AdminOps == {"changeUserRole", "deleteUser"}
IsAdmin(userId) == userId \in DOMAIN users /\ users[userId].role = "admin"
\* the step is a call of changeUserRole or deleteUser
AdminCall == authOut' # authOut /\ authOut'.op \in AdminOps

\* C20: changeUserRole and deleteUser change users or emailIndex only for a
\* requester who exists and is admin at the call, and answer UNAUTHORIZED
\* to everyone else, changing nothing; an admin who deletes himself gets
\* CANNOT_DELETE_SELF and nobody is removed; a successful deleteUser takes
\* the target out of users and its e-mail out of emailIndex, getUser of a
\* deleted id answers USER_NOT_FOUND, and no login begun afterwards finds
\* the deleted user.
C20_AdminOnly ==
    /\ [](/\ \A id \in authHist.deleted : id \notin DOMAIN users
          /\ (authOut.op = "getUser" /\ authOut.target \in authHist.deleted)
                => authOut.code = "USER_NOT_FOUND")
    /\ [][/\ (authStore' # authStore /\ authOut'.op \in AdminOps)
                => IsAdmin(authOut'.requester) /\ authOut'.code = "OK"
          /\ (AdminCall /\ ~IsAdmin(authOut'.requester))
                => authOut'.code = "UNAUTHORIZED" /\ UNCHANGED authStore
          /\ (AdminCall /\ authOut'.op = "deleteUser"
                /\ IsAdmin(authOut'.requester)
                /\ authOut'.requester = authOut'.target)
                => /\ authOut'.code = "CANNOT_DELETE_SELF"
                   /\ UNCHANGED authStore
          /\ (AdminCall /\ authOut'.op = "deleteUser" /\ authOut'.code = "OK")
                => /\ authOut'.target \notin DOMAIN users'
                   /\ users[authOut'.target].email \notin DOMAIN emailIndex'
                   /\ DOMAIN users' = DOMAIN users \ {authOut'.target}
          /\ \A p \in AuthCallers :
                (authCalls[p].op = "idle" /\ authCalls'[p].op = "login")
                   => authCalls'[p].user[1].id \notin authHist.deleted
         ]_allVars

\* an admin has deleted another user, and a user who is no admin has been
\* refused
C20_Witness ==
    /\ authOut.op = "deleteUser"
    /\ authOut.code = "OK"
    /\ authHist.deleted # {}
    /\ \E id \in DOMAIN users : users[id].role # "admin"

-----------------------------------------------------------------------------
(* Claims about QuoteService.duplicate.                                     *)

\* C21 as claimed: the quote a successful duplicate stores has status Draft
\* and a quoteNumber that differs from the original's and from every other
\* stored quote's.
C21_AsClaimed ==
    (lastOp.op = "Quote.duplicate" /\ lastOp.ok) =>
        /\ lastOp.arg \in DOMAIN quotes
        /\ quotes[lastOp.arg].status = "Draft"
        /\ \A other \in DOMAIN quotes \ {lastOp.arg} :
              quotes[other].quoteNumber # quotes[lastOp.arg].quoteNumber

-----------------------------------------------------------------------------
(* InvoiceService.getMonthlySummary, over a store of dated invoices.        *)

\* what getMonthlySummary returned
Summary(op, month, totalInvoiced, totalPaid, totalUnpaid, invoiceCount) ==
    [op |-> op, month |-> month, totalInvoiced |-> totalInvoiced,
     totalPaid |-> totalPaid, totalUnpaid |-> totalUnpaid,
     invoiceCount |-> invoiceCount]
NoSummary == Summary("none", 1, 0, 0, 0, 0)
SummaryIdle == summaryOut = NoSummary

\* items.reduce((sum, inv) => sum + inv[field], 0)
RECURSIVE SumField(_, _, _)
SumField(store, ids, field) ==
    IF ids = {} THEN 0
    ELSE LET id == CHOOSE id \in ids : TRUE
         IN  store[id][field] + SumField(store, ids \ {id}, field)

\* the filter of getMonthlySummary(2024, month): startDate is
\* new Date(year, month - 1, 1) and endDate is new Date(year, month, 0),
\* the last day of the month at 00:00:00.000
SummaryItems(store, month) ==
    LET startDate == DateAt(month, 1, 0)
        endDate == DateAt(month, MonthLengths[month], 0)
    IN  {id \in DOMAIN store :
            store[id].issueDate >= startDate /\ store[id].issueDate <= endDate}

getMonthlySummary(store, month) ==
    LET items == SummaryItems(store, month)
        totalInvoiced == SumField(store, items, "totalAmount")
        totalPaid == SumField(store, items, "paidAmount")
    IN  Summary("getMonthlySummary", month, totalInvoiced, totalPaid,
                totalInvoiced - totalPaid, Cardinality(items))

Summary_get(month) ==
    /\ summaryOut' = getMonthlySummary(invoices, month)
    /\ UNCHANGED <<invoices, quotes, lastOp>>

\* a store of invoices created and paid at the instants of the export lists
SummaryInit ==
    /\ invoices \in ExportLists
    /\ quotes = EmptyStore
    /\ lastOp = Op("none", NoValue, NoValue, 0, Ok)
    /\ summaryOut = NoSummary

\* the stored invoices issued on a day of the month
IssuedInMonth(month) ==
    {id \in DOMAIN invoices : CalendarOf(invoices[id].issueDate).m = month}

\* C22 as claimed: the summary of a month counts exactly the stored
\* invoices issued at any time of any day of that month, and its totals are
\* the sums over those invoices.
C22_AsClaimed ==
    summaryOut.op # "none" =>
        LET ids == IssuedInMonth(summaryOut.month)
        IN  /\ summaryOut.invoiceCount = Cardinality(ids)
            /\ summaryOut.totalInvoiced = SumField(invoices, ids, "totalAmount")
            /\ summaryOut.totalPaid = SumField(invoices, ids, "paidAmount")
            /\ summaryOut.totalUnpaid =
                  summaryOut.totalInvoiced - summaryOut.totalPaid

-----------------------------------------------------------------------------
(* Claims about the order of the groups.                                    *)

\* the characters of a month label; y and m stand for the two kanji of
\* "2024年01月"
LabelChars(label) ==
    IF label = "2024y01m" THEN <<"2", "0", "2", "4", "y", "0", "1", "m">>
    ELSE IF label = "2024y01m*"
    THEN <<"2", "0", "2", "4", "y", "0", "1", "m", "*">>
    ELSE <<"2", "0", "2", "4", "y", "0", "2", "m">>

\* the UTF-16 code unit of a character (of the kanji, for y and m)
CodeUnit(ch) ==
    IF ch = "*" THEN 42
    ELSE IF ch = "y" THEN 24180
    ELSE IF ch = "m" THEN 26376
    ELSE 47 + CHOOSE i \in 1..10 : DigitChars[i] = ch

\* a >= b in lexicographic order of the code units
RECURSIVE LexGeq(_, _)
LexGeq(a, b) ==
    IF b = <<>> THEN TRUE
    ELSE IF a = <<>> THEN FALSE
    ELSE IF CodeUnit(Head(a)) # CodeUnit(Head(b))
    THEN CodeUnit(Head(a)) > CodeUnit(Head(b))
    ELSE LexGeq(Tail(a), Tail(b))

Descending(rows) ==
    \A i \in 1..(Len(rows) - 1) :
        LexGeq(LabelChars(rows[i].invoiceMonth),
               LabelChars(rows[i + 1].invoiceMonth))

\* C23: the groups getInvoiceGroups returns, and the previews
\* getInvoicePreviews returns, are in descending lexicographic order of
\* their month labels: each one's label is >= the next one's.
C23_SortedDescending ==
    /\ call.op = "getInvoiceGroups" => Descending(call.groups)
    /\ call.op = "getInvoicePreviews" => Descending(call.previews)

\* two groups were returned, the one built from the second row first
C23_Witness ==
    /\ call.op = "getInvoiceGroups"
    /\ Len(call.groups) = 2
    /\ call.groups[1].invoiceMonth = "2024y02m"
    /\ call.groups[2].invoiceMonth = "2024y01m"
    /\ call.groups[1].items[1].recordId = 2
    /\ call.groups[2].items[1].recordId = 1

-----------------------------------------------------------------------------
(* LarkBaseClient.getAccessToken inside request: the token cache.  Times    *)
(* are in units of 30 s; a token is a number, NoToken is null or undefined. *)

TOKEN_MARGIN == 2          \* 60000 ms

NoToken == 0

\* what a token response can be: a body with a token, a status that is not
\* ok (getAccessToken throws), a body without a token
TokenOutcomes == {"OK", "NOT_OK", "NO_TOKEN"}

\* the locals of a request: start is the `now` of getAccessToken, token the
\* token it returned
TokenCall(at, start, token) == [pc |-> at, start |-> start, token |-> token]
IdleTokenCall == TokenCall("idle", 0, NoToken)

\* the test of the cache: this.accessToken && this.tokenExpiry > now + 60000
Reusable(token, expiry, at) == token # NoToken /\ expiry > at + TOKEN_MARGIN

\* a pair that mixes two responses: the later of the two expiries
CachedPair_latestExpiry(start, token, expire) ==
    [token |-> token,
     expiry |-> IF tokenExpiry > start + expire THEN tokenExpiry
                ELSE start + expire]

\* this.accessToken = data.tenant_access_token;
\* this.tokenExpiry = now + data.expire * 1000
CachedPair(start, token, expire) ==
    [token |-> token, expiry |-> start + expire]

\* request calls getAccessToken: the cached token is returned at once, or
\* the token endpoint is fetched
Token_begin(p) ==
    /\ tokenCalls[p].pc = "idle"
    /\ tokenCalls' = [tokenCalls EXCEPT ![p] =
            IF Reusable(accessToken, tokenExpiry, tokenTime)
            THEN TokenCall("sending", tokenTime, accessToken)
            ELSE TokenCall("fetching", tokenTime, NoToken)]
    /\ UNCHANGED <<accessToken, tokenExpiry, tokenTime, tokenHist>>

\* the token response arrives: the pair is stored and the stored token
\* returned; a status that is not ok throws and request returns
\* REQUEST_FAILED; a body without a token stores undefined and NaN
Token_response(p, outcome, expire) ==
    /\ tokenCalls[p].pc = "fetching"
    /\ LET start == tokenCalls[p].start
           token == tokenHist.issued + 1
           pair == CachedPair(start, token, expire)
       IN  IF outcome = "OK"
           THEN /\ accessToken' = pair.token
                /\ tokenExpiry' = pair.expiry
                /\ tokenHist' = [issued |-> token,
                                 responses |-> tokenHist.responses \cup
                                    {[token |-> token, start |-> start,
                                      expire |-> expire]}]
                /\ tokenCalls' = [tokenCalls EXCEPT
                                    ![p] = TokenCall("sending", start, pair.token)]
           ELSE IF outcome = "NO_TOKEN"
           THEN /\ accessToken' = NoToken
                /\ tokenExpiry' = 0
                /\ UNCHANGED tokenHist
                /\ tokenCalls' = [tokenCalls EXCEPT
                                    ![p] = TokenCall("sending", start, NoToken)]
           ELSE /\ UNCHANGED <<accessToken, tokenExpiry, tokenHist>>
                /\ tokenCalls' = [tokenCalls EXCEPT ![p] = IdleTokenCall]
    /\ UNCHANGED tokenTime

\* the request itself is sent with the token and answered
Token_send(p) ==
    /\ tokenCalls[p].pc = "sending"
    /\ tokenCalls' = [tokenCalls EXCEPT ![p] = IdleTokenCall]
    /\ UNCHANGED <<accessToken, tokenExpiry, tokenTime, tokenHist>>

\* 30 s pass
Token_tick ==
    /\ tokenTime' = tokenTime + 1
    /\ UNCHANGED <<accessToken, tokenExpiry, tokenCalls, tokenHist>>

(* Inputs.                                                                  *)

MaxTime == 4               \* the clock stops here
MaxTokenResponses == 2     \* token responses with a token in one behaviour

TokenCallers == {"A", "B"}
\* data.expire, in units of 30 s
TokenLifetimes == {3, 5}

\* a constructed client
CacheInit ==
    /\ accessToken = NoToken
    /\ tokenExpiry = 0
    /\ tokenCalls = [p \in TokenCallers |-> IdleTokenCall]
    /\ tokenTime = 0
    /\ tokenHist = [issued |-> 0, responses |-> {}]
CacheIdle == CacheInit

-----------------------------------------------------------------------------
(* Claims about the token cache.                                            *)

\* C24: a call reuses the cached token exactly when there is one and its
\* recorded expiry is more than the margin after the current time, and
\* fetches otherwise; whatever the interleaving of the callers, the cached
\* token and expiry are the token of one completed token response and that
\* response's lifetime added to the start of the call that received it, and
\* a request is sent with the token of a completed token response (with no
\* token when the response held none).
C24_TokenCache ==
    /\ [](/\ \/ accessToken = NoToken /\ tokenExpiry = 0
             \/ \E r \in tokenHist.responses :
                   /\ accessToken = r.token
                   /\ tokenExpiry = r.start + r.expire
          /\ \A p \in TokenCallers :
                tokenCalls[p].pc = "sending" =>
                   \/ tokenCalls[p].token = NoToken
                   \/ \E r \in tokenHist.responses :
                         tokenCalls[p].token = r.token)
    /\ [][\A p \in TokenCallers :
            tokenCalls[p].pc = "idle" =>
               /\ tokenCalls'[p].pc = "sending" =>
                     /\ accessToken # NoToken
                     /\ tokenExpiry > tokenTime + TOKEN_MARGIN
                     /\ tokenCalls'[p].token = accessToken
               /\ tokenCalls'[p].pc = "fetching" =>
                     ~(accessToken # NoToken
                       /\ tokenExpiry > tokenTime + TOKEN_MARGIN)
         ]_allVars

\* two stale callers fetched at once, the response of the later caller came
\* first, and the cache now holds the pair of the earlier caller
C24_Witness ==
    /\ Cardinality(tokenHist.responses) = 2
    /\ \E r1, r2 \in tokenHist.responses :
          /\ r1.token < r2.token
          /\ r1.start > r2.start
          /\ accessToken = r2.token
          /\ tokenExpiry < r1.start + r1.expire

-----------------------------------------------------------------------------
(* Claims about the status of a stored invoice and its paid amount.         *)

\* C25 as claimed: in every reachable state a stored invoice with status
\* Paid has paidAmount = totalAmount, one with status Overpaid has
\* paidAmount > totalAmount, and one with status PartiallyPaid has
\* 0 < paidAmount < totalAmount.
C25_AsClaimed ==
    \A id \in DOMAIN invoices :
        LET inv == invoices[id]
        IN  /\ inv.status = "Paid" => inv.paidAmount = inv.totalAmount
            /\ inv.status = "Overpaid" => inv.paidAmount > inv.totalAmount
            /\ inv.status = "PartiallyPaid" =>
                  0 < inv.paidAmount /\ inv.paidAmount < inv.totalAmount

-----------------------------------------------------------------------------
(* Two issueInvoice calls at once, on a table nobody else changes.          *)

RaceCallers == {"A", "B"}

\* a delivered, unbilled row of February and a second one of the same or of
\* the other client
RaceMonth ==
    [invoiceMonth |-> "2024y02m", submissionDate |-> NoDate, invoiceDate |-> NoDate]
RaceState == [status |-> "delivered", isInvoiced |-> FALSE]
RaceTables ==
    {<<Row(1, "ontsugi", RaceState, RaceMonth)>>,
     <<Row(1, "ontsugi", RaceState, RaceMonth),
       Row(2, "ontsugi", RaceState, RaceMonth)>>,
     <<Row(1, "ontsugi", RaceState, RaceMonth),
       Row(2, "nakamura", RaceState, RaceMonth)>>}

RaceInit ==
    /\ table \in RaceTables
    /\ now = Feb
    /\ call = NoCall
    /\ pc = [p \in RaceCallers |-> "idle"]
    /\ job = [p \in RaceCallers |-> IdleJob]
    /\ issued = {}
    /\ drifted = {}

-----------------------------------------------------------------------------
(* Claims about the rows issueInvoice bills and marks.                      *)

\* the rows itemized on the invoice of a call, and the rows the call chose
\* to mark
ItemizedOn(p) ==
    {job[p].invoice[1].items[i].recordId : i \in 1..Len(job[p].invoice[1].items)}
MarkedBy(p) ==
    {job[p].targets[i].recordId : i \in 1..Len(job[p].targets)}

\* C26 as claimed: no row is itemized on the Issued invoices of two calls.
C26_AsClaimed ==
    \A p, q \in DOMAIN pc :
        (p # q /\ IssuedBy(p) /\ IssuedBy(q))
            => ItemizedOn(p) \cap ItemizedOn(q) = {}

\* C27 as claimed: the rows a successful call marks are the rows itemized
\* on the invoice it returns.
C27_AsClaimed ==
    \A p \in DOMAIN pc : IssuedBy(p) => MarkedBy(p) = ItemizedOn(p)

-----------------------------------------------------------------------------
(* Claims about the amounts and dates of the exported entries.              *)

DebitsOf(es) == SumSeq([i \in 1..Len(es) |-> es[i].debitAmount])
CreditsOf(es) == SumSeq([i \in 1..Len(es) |-> es[i].creditAmount])
\* the sales-recognition entries among es
SalesLeg(es) == LET Sales(e) == e.kind \in SalesKinds IN SelectSeq(es, Sales)
DebitedTo(es, account) ==
    LET To(e) == e.debitAccount = account IN SelectSeq(es, To)
CreditedTo(es, account) ==
    LET To(e) == e.creditAccount = account IN SelectSeq(es, To)

\* C28 as claimed: the entries of an exported invoice balance, and those of
\* a correctly priced invoice that is not a Draft debit Accounts-Receivable
\* with totalAmount and credit Sales with subtotal and Tax-Payable with
\* taxAmount.
C28_AsClaimed ==
    ExportMade =>
        \A n \in 1..Len(exportIn) :
            Selected(exportIn[n], exportOut.options) =>
                LET inv   == exportIn[n]
                    es    == EntriesOf(n)
                    sales == SalesLeg(es)
                IN  /\ DebitsOf(es) = CreditsOf(es)
                    /\ (inv.status # "Draft" /\ PricedCorrectly(inv)) =>
                          /\ DebitsOf(DebitedTo(sales, "AR")) = inv.totalAmount
                          /\ CreditsOf(CreditedTo(sales, "Sales")) = inv.subtotal
                          /\ CreditsOf(CreditedTo(sales, "TaxPayable")) = inv.taxAmount


\* yyyy-MM-dd texts in calendar order
NotAfter(a, b) == localeCompare(a, b) <= 0

\* C29 as claimed: with a date range given, every exported row is dated
\* inside [startDate, endDate], the payment rows too.
C29_AsClaimed ==
    ExportMade =>
        \A i \in 1..Len(exportOut.entries) :
            LET options == exportOut.options
                date    == exportOut.entries[i].date
            IN  /\ options.startDate # <<>> =>
                      NotAfter(formatDate(options.startDate[1]), date)
                /\ options.endDate # <<>> =>
                      NotAfter(date, formatDate(options.endDate[1]))

-----------------------------------------------------------------------------
(* The grouping engine on a table of one page and of one row more.          *)

\* has_more of the response: rows are left after the page
HasMore(tbl, pageSize) == Len(tbl) > pageSize

\* a delivered, unbilled row of January worth 15
PageRow(k, clientName) ==
    [Row(k, clientName, [status |-> "delivered", isInvoiced |-> FALSE],
         [invoiceMonth |-> "2024y01m", submissionDate |-> NoDate,
          invoiceDate |-> NoDate])
     EXCEPT !.quantity = 1, !.unitPrice = 15, !.amount = 15]
\* n rows of one client, or the last row of the other
PageTables(n) ==
    {[k \in 1..n |-> PageRow(k, IF k = n THEN last ELSE "ontsugi")] :
        last \in Clients}

PagesInit ==
    /\ table \in PageTables(GROUP_PAGE_SIZE) \cup PageTables(GROUP_PAGE_SIZE + 1)
    /\ now = Feb
    /\ call = NoCall

\* C30 as claimed: every eligible row of the table is in a group that
\* getInvoiceGroups returns, also when the table is longer than one page.
C30_AsClaimed ==
    (GroupsReturned /\ call.opts.ym = NoDate) =>
        \A k \in RowIds : Eligible(k, call.opts) => k \in MembersOf(call.groups)

-----------------------------------------------------------------------------
(* Specifications.                                                          *)

\* the grouping engine at rest
GroupsIdle ==
    /\ table = <<>>
    /\ now = Jan
    /\ call = NoCall

\* no call of issueInvoice under way
IssueIdle ==
    /\ pc = [p \in IssueCallers |-> "idle"]
    /\ job = [p \in IssueCallers |-> IdleJob]
    /\ issued = {}
    /\ drifted = {}

\* no export made
ExportIdle ==
    /\ exportIn = <<>>
    /\ exportOut = NoExport
    /\ completion = NoCompletion

\* the document services alone: the record store is not touched
DocsOnly ==
    UNCHANGED <<groupVars, issueVars, exportVars, completion, authVars, summaryVars, cacheVars>>
\* the grouping engine alone
GroupsOnly ==
    UNCHANGED <<docVars, issueVars, exportVars, completion, authVars, summaryVars, cacheVars>>
\* issueInvoice and the record store alone
IssueOnly ==
    UNCHANGED <<docVars, call, exportVars, completion, authVars, summaryVars, cacheVars>>

InitInvoices == DocInit /\ CacheIdle /\ SummaryIdle /\ AuthInit /\ GroupsIdle /\ IssueIdle /\ ExportIdle
NextInvoices ==
    \/ \E id \in InvoiceIds, data \in CreateInputs :
          Invoice_create(id, data) /\ DocsOnly
    \/ \E id \in InvoiceIds, data \in UpdateInputs :
          Invoice_update(id, data) /\ DocsOnly
    \/ \E id \in InvoiceIds, st \in InvoiceStatuses :
          Invoice_updateStatus(id, st) /\ DocsOnly
    \/ \E id \in InvoiceIds, a \in PayInputs :
          CanPay(id, a) /\ Invoice_recordPayment(id, a) /\ DocsOnly
    \/ \E id \in InvoiceIds : Invoice_delete(id) /\ DocsOnly

\* InvoiceService alone, every status and payment
SpecInvoices == InitInvoices /\ [][NextInvoices]_allVars

InitDocs == DocInit /\ CacheIdle /\ SummaryIdle /\ AuthInit /\ GroupsIdle /\ IssueIdle /\ ExportIdle
NextDocs ==
    \/ \E id \in InvoiceIds, data \in DocsCreateInputs :
          Invoice_create(id, data) /\ DocsOnly
    \/ \E id \in InvoiceIds, data \in DocsUpdateInputs :
          Invoice_update(id, data) /\ DocsOnly
    \/ \E id \in InvoiceIds, st \in DocStatusInputs :
          Invoice_updateStatus(id, st) /\ DocsOnly
    \/ \E id \in InvoiceIds, a \in DocPayInputs :
          CanPay(id, a) /\ Invoice_recordPayment(id, a) /\ DocsOnly
    \/ \E id \in QuoteIds, data \in DocsCreateInputs :
          Quote_create(id, data) /\ DocsOnly
    \/ \E id \in QuoteIds, data \in DocsUpdateInputs :
          Quote_update(id, data) /\ DocsOnly
    \/ \E id \in QuoteIds, st \in DocStatusInputs :
          Quote_updateStatus(id, st) /\ DocsOnly
    \/ \E id \in QuoteIds, newId \in QuoteIds :
          Quote_duplicate(id, newId) /\ DocsOnly
    \/ \E id \in QuoteIds : Quote_delete(id) /\ DocsOnly

\* both document services side by side, on a handful of inputs
SpecDocs == InitDocs /\ [][NextDocs]_allVars

InitGroups == GroupsInit /\ DocInit /\ CacheIdle /\ SummaryIdle /\ AuthInit /\ IssueIdle /\ ExportIdle
\* one call on each table
NextGroups ==
    \/ \E opts \in GroupOptions, outcome \in FetchOutcomes :
          call = NoCall /\ Call_getInvoiceGroups(opts, outcome) /\ GroupsOnly
    \/ \E opts \in GroupOptions, outcome \in FetchOutcomes :
          call = NoCall /\ Call_getInvoicePreviews(opts, outcome) /\ GroupsOnly
    \/ \E c \in Clients, m \in MonthLabels, outcome \in FetchOutcomes :
          call = NoCall /\ Call_generateInvoice(c, m, outcome) /\ GroupsOnly

\* the grouping engine on every table of up to MaxItems rows
SpecGroups == InitGroups /\ [][NextGroups]_allVars

InitIssue == IssueInit /\ DocInit /\ CacheIdle /\ SummaryIdle /\ AuthInit /\ ExportIdle
NextIssue ==
    \/ \E p \in IssueCallers, c \in Clients, m \in MonthLabels,
          outcome \in FetchOutcomes :
          Issue_generate(p, c, m, outcome) /\ IssueOnly
    \/ \E p \in IssueCallers, outcome \in FetchOutcomes :
          Issue_refetch(p, outcome) /\ IssueOnly
    \/ \E p \in IssueCallers, outcome \in FetchOutcomes :
          Issue_mark(p, outcome) /\ IssueOnly
    \/ \E p \in IssueCallers : Issue_taken(p) /\ IssueOnly
    \/ \E c \in IssueClients, st \in IssueStateShapes, mo \in IssueMonthShapes :
          Len(table) < MaxRows /\ Store_create(c, st, mo) /\ IssueOnly
    \/ \E k \in 1..MaxRows : Store_deliver(k) /\ IssueOnly
    \/ Tick /\ IssueOnly

\* issueInvoice, call after call, while rows are added and delivered and
\* the month ends
SpecIssue == InitIssue /\ [][NextIssue]_allVars

InitAmounts == AmountsInit /\ DocInit /\ CacheIdle /\ SummaryIdle /\ AuthInit /\ IssueIdle /\ ExportIdle
NextAmounts ==
    \/ \E c \in Clients, m \in MonthLabels, outcome \in FetchOutcomes :
          call = NoCall /\ Call_generateInvoice(c, m, outcome) /\ GroupsOnly

\* generateInvoice on tables whose records carry any amount field
SpecAmounts == InitAmounts /\ [][NextAmounts]_allVars

\* the export alone
ExportOnly ==
    UNCHANGED <<docVars, groupVars, issueVars, completion, authVars, summaryVars, cacheVars>>

InitExport ==
    ExportInit /\ completion = NoCompletion /\ DocInit /\ CacheIdle /\ SummaryIdle /\ AuthInit /\ GroupsIdle /\ IssueIdle
\* one export of each list
NextExport ==
    \/ \E options \in ExportOptions :
          exportOut = NoExport /\ Export_toCSV(options) /\ ExportOnly
    \/ \E month \in ExportMonths :
          exportOut = NoExport /\ Export_monthly(month) /\ ExportOnly

\* exportToCSV and exportMonthly on every list of up to MaxExportInvoices
\* invoices
SpecExport == InitExport /\ [][NextExport]_allVars

InitCsv ==
    CsvInit /\ completion = NoCompletion /\ DocInit /\ CacheIdle /\ SummaryIdle /\ AuthInit /\ GroupsIdle /\ IssueIdle
NextCsv ==
    \/ \E options \in {NoExportOptions} :
          exportOut = NoExport /\ Export_toCSV(options) /\ ExportOnly

\* exportToCSV on an invoice whose number and project id run over every
\* text of up to MaxTextLen characters
SpecCsv == InitCsv /\ [][NextCsv]_allVars

\* the first request of an operation on the record store alone
BoundaryOnly ==
    UNCHANGED <<docVars, issueVars, exportVars, authVars, summaryVars, cacheVars>>

InitBoundary ==
    GroupsInit /\ completion = NoCompletion /\ DocInit /\ CacheIdle /\ SummaryIdle /\ AuthInit /\ IssueIdle
       /\ exportIn = <<>> /\ exportOut = NoExport
NextBoundary ==
    \/ \E outcome \in StoreOutcomes :
          completion = NoCompletion /\ Boundary_listRecords(outcome) /\ BoundaryOnly
    \/ \E outcome \in StoreOutcomes :
          completion = NoCompletion /\ Boundary_list(outcome) /\ BoundaryOnly
    \/ \E op \in ListingOps, c \in Clients, m \in MonthLabels,
          outcome \in StoreOutcomes :
          completion = NoCompletion /\ Boundary_listing(op, c, m, outcome)
             /\ BoundaryOnly

\* one operation on each table, under every answer of the store
SpecBoundary == InitBoundary /\ [][NextBoundary]_allVars

\* AuthService alone
AuthOnly == UNCHANGED <<docVars, groupVars, issueVars, exportVars, completion, summaryVars, cacheVars>>

InitAuth == AuthInit /\ DocInit /\ CacheIdle /\ SummaryIdle /\ GroupsIdle /\ IssueIdle /\ ExportIdle
NextAuth ==
    \/ \E p \in AuthCallers, email \in Emails, password \in Passwords,
          role \in RegisterRoles :
          /\ Cardinality(authHist.created) + Cardinality(Registering)
                < Cardinality(UserIds)
          /\ Register_check(p, email, password, role) /\ AuthOnly
    \/ \E p \in AuthCallers : Register_complete(p) /\ AuthOnly
    \/ \E p \in LoginCallers, email \in Emails, password \in Passwords :
          /\ authHist.signed + Cardinality(LoggingIn) < MaxLogins
          /\ Login_lookup(p, email, password) /\ AuthOnly
    \/ \E p \in LoginCallers : Login_complete(p) /\ AuthOnly
    \/ \E id \in UserIds : getUser(id) /\ AuthOnly
    \/ \E requesterId \in UserIds, targetUserId \in UserIds, newRole \in NewRoles :
          changeUserRole(requesterId, targetUserId, newRole) /\ AuthOnly
    \/ \E requesterId \in UserIds, targetUserId \in UserIds :
          deleteUser(requesterId, targetUserId) /\ AuthOnly

\* every interleaving of the operations on the users of one AuthService
SpecAuth == InitAuth /\ [][NextAuth]_allVars

\* the tokens of an AuthService with an admin and a user registered
InitTokens == TokensInit /\ DocInit /\ CacheIdle /\ SummaryIdle /\ GroupsIdle /\ IssueIdle /\ ExportIdle
NextTokens ==
    \/ \E p \in LoginCallers, email \in Emails, password \in Passwords :
          /\ authHist.signed + Cardinality(LoggingIn) < MaxSigned
          /\ Login_lookup(p, email, password) /\ AuthOnly
    \/ \E p \in LoginCallers : Login_complete(p) /\ AuthOnly
    \/ \E t \in PresentableTokens : logout(t) /\ AuthOnly
    \/ \E t \in PresentableTokens :
          /\ authHist.signed + Cardinality(LoggingIn) < MaxSigned
          /\ refreshAccessToken(t) /\ AuthOnly
    \/ \E requesterId \in authHist.created, targetUserId \in authHist.created :
          deleteUser(requesterId, targetUserId) /\ AuthOnly
    \/ Auth_tick /\ AuthOnly

\* every interleaving of the operations that sign, store, remove or read
\* refresh tokens
SpecTokens == InitTokens /\ [][NextTokens]_allVars

\* getMonthlySummary alone
SummaryOnly ==
    UNCHANGED <<groupVars, issueVars, exportVars, completion, authVars, cacheVars>>

InitSummary ==
    SummaryInit /\ CacheIdle /\ AuthInit /\ GroupsIdle /\ IssueIdle
       /\ ExportIdle
NextSummary ==
    \/ \E month \in ExportMonths : Summary_get(month) /\ SummaryOnly

\* the monthly summaries of each store
SpecSummary == InitSummary /\ [][NextSummary]_allVars

\* the token cache alone
CacheOnly ==
    UNCHANGED <<docVars, groupVars, issueVars, exportVars, completion, authVars, summaryVars>>

InitCache ==
    CacheInit /\ DocInit /\ SummaryIdle /\ AuthInit /\ GroupsIdle /\ IssueIdle
       /\ ExportIdle
NextCache ==
    \/ \E p \in TokenCallers : Token_begin(p) /\ CacheOnly
    \/ \E p \in TokenCallers, outcome \in TokenOutcomes, expire \in TokenLifetimes :
          /\ tokenHist.issued < MaxTokenResponses
          /\ Token_response(p, outcome, expire) /\ CacheOnly
    \/ \E p \in TokenCallers : Token_send(p) /\ CacheOnly
    \/ tokenTime < MaxTime /\ Token_tick /\ CacheOnly

\* every interleaving of two callers of request
SpecCache == InitCache /\ [][NextCache]_allVars

InitRace ==
    RaceInit /\ DocInit /\ CacheIdle /\ SummaryIdle /\ AuthInit /\ ExportIdle
NextRace ==
    \/ \E p \in RaceCallers, c \in Clients, outcome \in FetchOutcomes :
          Issue_generate(p, c, "2024y02m", outcome) /\ IssueOnly
    \/ \E p \in RaceCallers, outcome \in FetchOutcomes :
          Issue_refetch(p, outcome) /\ IssueOnly
    \/ \E p \in RaceCallers, outcome \in FetchOutcomes :
          Issue_mark(p, outcome) /\ IssueOnly
    \/ \E p \in RaceCallers : Issue_taken(p) /\ IssueOnly

\* two callers of issueInvoice, every interleaving of their awaits
SpecRace == InitRace /\ [][NextRace]_allVars

InitPages ==
    PagesInit /\ DocInit /\ CacheIdle /\ SummaryIdle /\ AuthInit /\ IssueIdle /\ ExportIdle
NextPages ==
    \/ \E opts \in GroupOptions, outcome \in FetchOutcomes :
          call = NoCall /\ Call_getInvoiceGroups(opts, outcome) /\ GroupsOnly
    \/ \E opts \in GroupOptions, outcome \in FetchOutcomes :
          call = NoCall /\ Call_getInvoicePreviews(opts, outcome) /\ GroupsOnly
    \/ \E c \in Clients, m \in MonthLabels, outcome \in FetchOutcomes :
          call = NoCall /\ Call_generateInvoice(c, m, outcome) /\ GroupsOnly

\* one call on a table as long as the page the engine asks for, or longer
SpecPages == InitPages /\ [][NextPages]_allVars

====
